---- MODULE Spec2Model ----
(***************************************************************************)
(* A model of the SquashFS explorer: the superblock reader of squashfs.py, *)
(* the session object and command handlers of tool.py / commands/*, the    *)
(* filesystem parser of squashfs_fs.py and the reader of sqpeek.py.        *)
(*                                                                         *)
(* Python values are represented as follows.                               *)
(*   bytes            a sequence of integers 0..255                        *)
(*   str              a sequence of one-character strings                  *)
(*   None             the record None (for optional records) or the string *)
(*                    "None" (for optional object references)              *)
(*   an exception     a record with a field exc naming the exception type  *)
(* Integers decoded from the image stay below 2^31 on every input the      *)
(* model enumerates, so no decoded value is ever truncated.                *)
(***************************************************************************)
EXTENDS Integers, Sequences, FiniteSets, TLC

VARIABLES
    image,        \* the bytes of the image file on disk
    force,        \* the --force flag given on the command line
    pc,           \* "start": before a program runs; "loop": the explorer
                  \* exists and takes commands; "exited": sys.exit was
                  \* called; "sqpeek": sqpeek.py was run instead;
                  \* "threads": two threads share sqpeek's image object
    exit_status,  \* <<>> while running, <<code>> after sys.exit(code)
    superblock,   \* explorer.superblock
    raw_data,     \* explorer.raw_data
    fs_parser,    \* explorer.fs_parser: None, or the SquashFSParser object
    heap,         \* the Inode objects, by object reference
    out,          \* what the last operation returned or printed
    sq,           \* outcome of building sqpeek's SquashFSImage on the image
    registry,     \* commands.COMMAND_REGISTRY: the dict's items in insertion
                  \* order, each a name and the class registered under it
    sys_modules,  \* sys.modules: the modules of the commands package that
                  \* have been imported
    f_pos,        \* the position of the file object self.f of sqpeek's image
    calls         \* the calls of sqpeek's methods that are in progress:
                  \* the frames of one thread, innermost last, or one
                  \* frame per thread

vars == <<image, force, pc, exit_status, superblock, raw_data, fs_parser, heap, out, sq, registry,
         sys_modules, f_pos, calls>>

None == [py_none |-> TRUE]

Min(a, b) == IF a <= b THEN a ELSE b

(***************************************************************************)
(* bytes                                                                   *)
(***************************************************************************)

\* Python's s[a:b] for 0 <= a, 0 <= b (both clamped to the length).
Slice(s, a, b) ==
    LET lo == Min(a, Len(s))
        hi == Min(b, Len(s))
    IN  IF hi <= lo THEN <<>> ELSE SubSeq(s, lo + 1, hi)

\* The unsigned little-endian integer held by a byte string.
RECURSIVE FromLE(_)
FromLE(bs) == IF bs = <<>> THEN 0 ELSE bs[1] + 256 * FromLE(Tail(bs))

\* The n-byte little-endian encoding of v (struct.pack of one field).
RECURSIVE ToLE(_, _)
ToLE(v, n) == IF n = 0 THEN <<>> ELSE <<v % 256>> \o ToLE(v \div 256, n - 1)

Zeros(n) == [i \in 1..n |-> 0]

(***************************************************************************)
(* struct: a format is the sequence of its codes, byte order "<"           *)
(***************************************************************************)

FmtSize(c) == CASE c = "I" -> 4 [] c = "H" -> 2 [] c = "Q" -> 8 [] c = "x" -> 1 [] c = "B" -> 1

RECURSIVE calcsize(_)
calcsize(fmt) == IF fmt = <<>> THEN 0 ELSE FmtSize(Head(fmt)) + calcsize(Tail(fmt))

RECURSIVE UnpackFields(_, _)
UnpackFields(fmt, data) ==
    IF fmt = <<>> THEN <<>>
    ELSE LET n    == FmtSize(Head(fmt))
             rest == UnpackFields(Tail(fmt), SubSeq(data, n + 1, Len(data)))
         IN  IF Head(fmt) = "x" THEN rest
             ELSE <<FromLE(SubSeq(data, 1, n))>> \o rest

\* struct.unpack(fmt, data): the buffer must have exactly calcsize(fmt) bytes.
struct_unpack(fmt, data) ==
    IF Len(data) # calcsize(fmt)
    THEN [exc |-> "struct.error", vals |-> <<>>]
    ELSE [exc |-> "", vals |-> UnpackFields(fmt, data)]

\* struct.unpack_from(fmt, data): the buffer must have at least calcsize(fmt) bytes.
struct_unpack_from(fmt, data) ==
    IF Len(data) < calcsize(fmt)
    THEN [exc |-> "struct.error", vals |-> <<>>]
    ELSE [exc |-> "", vals |-> UnpackFields(fmt, SubSeq(data, 1, calcsize(fmt)))]

(***************************************************************************)
(* squashfs.py: the superblock reader                                      *)
(***************************************************************************)

SQUASHFS_MAGIC == 1936814952   \* 0x73717368

\* "<IIIIIHHHHHHQQQQQQQQx"
SUPERBLOCK_FMT ==
    <<"I", "I", "I", "I", "I", "H", "H", "H", "H", "H", "H",
      "Q", "Q", "Q", "Q", "Q", "Q", "Q", "Q", "x">>

\* SquashFSSuperblock with compression_id and block_log taken from each
\* other's position.
SquashFSSuperblock_swapped(u) ==
    [magic                 |-> u[1],
     inode_count           |-> u[2],
     modification_time     |-> u[3],
     block_size            |-> u[4],
     fragment_entry_count  |-> u[5],
     compression_id        |-> u[7],
     block_log             |-> u[6],
     flags                 |-> u[8],
     id_count              |-> u[9],
     version_major         |-> u[10],
     version_minor         |-> u[11],
     root_inode_ref        |-> u[12],
     bytes_used            |-> u[13],
     id_table_start        |-> u[14],
     xattr_id_table_start  |-> u[15],
     inode_table_start     |-> u[16],
     directory_table_start |-> u[17],
     fragment_table_start  |-> u[18],
     export_table_start    |-> u[19]]

SquashFSSuperblock(u) ==
    [magic                 |-> u[1],
     inode_count           |-> u[2],
     modification_time     |-> u[3],
     block_size            |-> u[4],
     fragment_entry_count  |-> u[5],
     compression_id        |-> u[6],
     block_log             |-> u[7],
     flags                 |-> u[8],
     id_count              |-> u[9],
     version_major         |-> u[10],
     version_minor         |-> u[11],
     root_inode_ref        |-> u[12],
     bytes_used            |-> u[13],
     id_table_start        |-> u[14],
     xattr_id_table_start  |-> u[15],
     inode_table_start     |-> u[16],
     directory_table_start |-> u[17],
     fragment_table_start  |-> u[18],
     export_table_start    |-> u[19]]

\* (1 << block_log) != block_size.  block_size is below 2^31, so a shift of
\* 31 or more never equals it.
BlockLogMismatch(block_log, block_size) ==
    IF block_log > 30 THEN TRUE ELSE 2 ^ block_log # block_size

\* The branch for data shorter than 96 bytes: only diagnostics, returns None.
UnpackShort(data) ==
    [ret    |-> None,
     raised |-> "",
     out    |-> <<"Data too short">> \o
                (IF Len(data) >= 4
                 THEN IF FromLE(Slice(data, 0, 4)) = SQUASHFS_MAGIC
                      THEN <<"Found valid magic number">>
                      ELSE <<"Invalid magic number">>
                 ELSE <<>>)]

\* UnpackFull without the magic check.
UnpackFull_nomagic(data) ==
    LET padded == IF Len(data) < 97 THEN data \o Zeros(97 - Len(data)) ELSE data
        u      == struct_unpack(SUPERBLOCK_FMT, Slice(padded, 0, 97))
    IN  [ret |-> SquashFSSuperblock(u.vals), raised |-> "", out |-> <<>>]

\* The branch for data of at least 96 bytes.
UnpackFull(data) ==
    LET padded == IF Len(data) < 97 THEN data \o Zeros(97 - Len(data)) ELSE data
        u      == struct_unpack(SUPERBLOCK_FMT, Slice(padded, 0, 97))
    IN  IF u.exc # ""
        THEN [ret |-> None, raised |-> "", out |-> <<"Error unpacking superblock">>]
        ELSE LET sb == SquashFSSuperblock(u.vals)
             IN  IF sb.magic # SQUASHFS_MAGIC
                 THEN [ret |-> None, raised |-> "", out |-> <<"Invalid magic number">>]
                 ELSE [ret    |-> sb,
                       raised |-> "",
                       out    |-> IF BlockLogMismatch(sb.block_log, sb.block_size)
                                  THEN <<"Warning: block_log does not match block_size">>
                                  ELSE <<>>]

\* unpack_squashfs_superblock without the length test and the handlers:
\* struct.error escapes on short data.
unpack_squashfs_superblock_unguarded(data) ==
    IF Len(data) < 96
    THEN [ret |-> None, raised |-> "struct.error", out |-> <<>>]
    ELSE UnpackFull(data)

\* unpack_squashfs_superblock(data): ret is the value returned, raised the
\* exception that escapes to the caller ("" when none does), out the kinds
\* of the lines printed.
unpack_squashfs_superblock(data) ==
    IF Len(data) < 96 THEN UnpackShort(data) ELSE UnpackFull(data)

(***************************************************************************)
(* sqpeek.py: SquashFSImage._read_super                                    *)
(***************************************************************************)

MAGIC == 1936814952   \* 0x73717368

\* "<IIIIIHHHHHHQQQQQQQ"
SB_FMT ==
    <<"I", "I", "I", "I", "I", "H", "H", "H", "H", "H", "H",
      "Q", "Q", "Q", "Q", "Q", "Q", "Q">>

\* The targets of the tuple assignment, in order; all but the first are
\* attributes of the image object.
SB_TARGETS ==
    <<"magic", "inode_count", "mkfs_time", "block_size", "frag_count",
      "compression", "block_log", "flags", "id_count", "version_major",
      "version_minor", "root_inode_ref", "bytes_used", "id_tbl_start",
      "xattr_tbl_start", "inode_tbl_start", "dir_tbl_start", "frag_tbl_start",
      "lookup_tbl_start">>

TargetIndex(name) == CHOOSE i \in 1..Len(SB_TARGETS) : SB_TARGETS[i] = name

\* _read_super on the file img: exc is the exception raised ("" when the
\* constructor returns), attrs the attributes assigned before that, as
\* <<name, value>> pairs.  A tuple assignment whose right-hand side has the
\* wrong number of values raises ValueError before any target is assigned.
SquashFSImage_read_super(img) ==
    LET blob == Slice(img, 0, 96)
        u    == struct_unpack_from(SB_FMT, blob)
    IN  IF u.exc # ""
        THEN [exc |-> "struct.error", msg |-> "buffer too small", attrs |-> <<>>]
        ELSE IF Len(u.vals) # Len(SB_TARGETS)
        THEN [exc |-> "ValueError", msg |-> "not enough values to unpack", attrs |-> <<>>]
        ELSE LET attrs == [i \in 1..(Len(SB_TARGETS) - 1) |->
                              <<SB_TARGETS[i + 1], u.vals[i + 1]>>]
             IN  IF u.vals[TargetIndex("magic")] # MAGIC
                 THEN [exc |-> "ValueError", msg |-> "Not a SquashFS image (bad magic)",
                       attrs |-> attrs]
                 ELSE IF u.vals[TargetIndex("compression")] # 1
                 THEN [exc |-> "NotImplementedError",
                       msg |-> "Only gzip-compressed images handled", attrs |-> attrs]
                 ELSE [exc |-> "", msg |-> "", attrs |-> attrs]

(***************************************************************************)
(* str                                                                     *)
(***************************************************************************)

DigitChars == <<"0", "1", "2", "3", "4", "5", "6", "7", "8", "9">>

DigitVal(c) == CHOOSE d \in 0..9 : DigitChars[d + 1] = c

\* s.isdigit(), for the ASCII strings the model enumerates
isdigit(s) == s # <<>> /\ \A i \in 1..Len(s) : \E d \in 0..9 : DigitChars[d + 1] = s[i]

\* int(s) for a string of decimal digits
RECURSIVE int(_)
int(s) ==
    IF s = <<>> THEN 0
    ELSE int(SubSeq(s, 1, Len(s) - 1)) * 10 + DigitVal(s[Len(s)])

\* str(n) for n >= 0
RECURSIVE str(_)
str(n) == IF n < 10 THEN <<DigitChars[n + 1]>> ELSE str(n \div 10) \o <<DigitChars[(n % 10) + 1]>>

\* s.split(sep) for a one-character separator: the parts between consecutive separators
split(s, sep) ==
    LET at     == {j \in 1..Len(s) : s[j] = sep}
        n      == Cardinality(at)
        cut(k) == IF k = 0 THEN 0
                  ELSE IF k = n + 1 THEN Len(s) + 1
                  ELSE CHOOSE j \in at : Cardinality({x \in at : x < j}) = k - 1
    IN  [k \in 1..(n + 1) |-> SubSeq(s, cut(k - 1) + 1, cut(k) - 1)]

(***************************************************************************)
(* The image files the model opens.  A file is a superblock, the id table  *)
(* (4 bytes per id) and the root inode record, cut short or followed by    *)
(* filler bytes.                                                           *)
(***************************************************************************)

MaxIds == 1          \* largest id_count of an image
MaxExtra == 1        \* most bytes an image has beyond the 4096 the explorer reads

HeaderFields ==
    [magic                 : {SQUASHFS_MAGIC, SQUASHFS_MAGIC + 1},
     inode_count           : {258},
     modification_time     : {16909060},
     block_size            : {4096, 4097},
     fragment_entry_count  : {5},
     compression_id        : 1..7,
     block_log             : {12},
     flags                 : {192},
     id_count              : 0..MaxIds,
     version_major         : {4, 3},
     version_minor         : {0},
     root_inode_ref        : {32},
     bytes_used            : {70000},
     id_table_start        : {96},
     xattr_id_table_start  : {2147483647},
     inode_table_start     : {96 + 4 * n : n \in 0..MaxIds},
     directory_table_start : {66051},
     fragment_table_start  : {67438087},
     export_table_start    : {134810123}]

\* struct.pack("<IIIIIHHHHHHQQQQQQQQ", ...) of the fields
Header(f) ==
    ToLE(f.magic, 4) \o ToLE(f.inode_count, 4) \o ToLE(f.modification_time, 4) \o
    ToLE(f.block_size, 4) \o ToLE(f.fragment_entry_count, 4) \o
    ToLE(f.compression_id, 2) \o ToLE(f.block_log, 2) \o ToLE(f.flags, 2) \o
    ToLE(f.id_count, 2) \o ToLE(f.version_major, 2) \o ToLE(f.version_minor, 2) \o
    ToLE(f.root_inode_ref, 8) \o ToLE(f.bytes_used, 8) \o ToLE(f.id_table_start, 8) \o
    ToLE(f.xattr_id_table_start, 8) \o ToLE(f.inode_table_start, 8) \o
    ToLE(f.directory_table_start, 8) \o ToLE(f.fragment_table_start, 8) \o
    ToLE(f.export_table_start, 8)

RECURSIVE IdTable(_)
IdTable(n) == IF n = 0 THEN <<>> ELSE IdTable(n - 1) \o ToLE(1000 + n, 4)

\* A root inode record of len bytes: type and permissions, uid index, gid
\* index, mtime, inode number, then zero bytes.
InodeRecord(type, len) ==
    Slice(ToLE(type * 4096 + 493, 2) \o ToLE(0, 2) \o ToLE(0, 4) \o
          ToLE(16909060, 4) \o ToLE(1, 4) \o Zeros(16), 0, len)

Filler(n) == [i \in 1..n |-> (i % 251) + 1]

\* The number of fields in which a header departs from a well-formed
\* version 4 header.
Deviations(g) ==
    (IF g.magic # SQUASHFS_MAGIC THEN 1 ELSE 0)
    + (IF g.block_size # 2 ^ g.block_log THEN 1 ELSE 0)
    + (IF g.version_major # 4 THEN 1 ELSE 0)
    + (IF g.compression_id # 1 THEN 1 ELSE 0)

\* The headers whose inode table follows the id table and that depart from
\* a well-formed gzip header in at most one field; the headers of the other
\* compression methods have an empty id table.
Headers ==
    { g \in HeaderFields : /\ g.inode_table_start = 96 + 4 * g.id_count
                           /\ Deviations(g) <= 1
                           /\ (g.compression_id # 1 => g.id_count = 0) }

\* A gzip image has a directory or a file as its root and an inode record
\* of 16 or 24 bytes; an image of another compression method has a
\* directory root of 16 bytes.
WholeImages ==
    { Header(f) \o IdTable(f.id_count) \o InodeRecord(type, len) :
        f \in {g \in Headers : g.compression_id = 1}, type \in {1, 2}, len \in {16, 24} }
    \cup { Header(f) \o InodeRecord(1, 16) : f \in {g \in Headers : g.compression_id # 1} }

CutImages ==
    { Slice(w, 0, n) : w \in {v \in WholeImages : FromLE(Slice(v, 20, 22)) = 1}, n \in {0, 3, 4, 95, 96} }

BigImages ==
    { Header(f) \o Filler(4096 + e - 96) :
        f \in {g \in HeaderFields : g.id_count = 0 /\ g.inode_table_start = 96
                                    /\ g.block_size = 4096 /\ g.version_major = 4
                                    /\ g.compression_id = 1},
        e \in 0..MaxExtra }

\* A directory table of one metadata block (stored, so bit 15 of its header
\* is set) that holds one directory header and the entries of the given
\* names: the header is count - 1, start block and inode number base, 4
\* bytes each; an entry is offset, inode number delta, type and name
\* length - 1, 2 bytes each, then the name.
RECURSIVE DirEntries(_)
DirEntries(names) ==
    IF names = <<>> THEN <<>>
    ELSE ToLE(0, 2) \o ToLE(Len(names), 2) \o ToLE(2, 2) \o ToLE(Len(Head(names)) - 1, 2)
         \o Head(names) \o DirEntries(Tail(names))

DirTable(names) ==
    LET payload == ToLE(Len(names) - 1, 4) \o ToLE(0, 4) \o ToLE(1, 4) \o DirEntries(names)
    IN  ToLE(Len(payload) + 32768, 2) \o payload

\* Well-formed gzip images whose directory table, between the superblock and
\* the inode table, holds the entries of the root directory.
DirImages ==
    { Header([g EXCEPT !.directory_table_start = 96,
                       !.inode_table_start = 96 + Len(DirTable(names))])
      \o DirTable(names) \o InodeRecord(1, 16) :
        g \in {h \in Headers : Deviations(h) = 0 /\ h.id_count = 0},
        names \in { << <<97>> >>, << <<97>>, <<98, 99>> >> } }

Images == WholeImages \cup CutImages \cup BigImages \cup DirImages

\* The argument strings given to the hex and raw commands.
NumberArgs == { str(n) : n \in {0, 3, 4096} \cup {4096 + e : e \in 1..MaxExtra} }
CommandArgs == {<<>>} \cup {<<a>> : a \in NumberArgs \cup {<<"a", "b">>}}

(***************************************************************************)
(* tool.py: SquashFSExplorer and the hex, raw and exit command handlers    *)
(***************************************************************************)

Init ==
    /\ image \in Images
    /\ force \in BOOLEAN
    /\ pc = "start"
    /\ exit_status = <<>>
    /\ superblock = None
    /\ raw_data = <<>>
    /\ fs_parser = None
    /\ heap = <<>>
    /\ out = [cmd |-> "none"]
    /\ sq = [exc |-> "not run"]
    /\ registry = <<>>
    /\ sys_modules = {}
    /\ f_pos = 0
    /\ calls = <<>>

\* SquashFSExplorer.__init__ with the force flag ignored.
SquashFSExplorer_init_noforce ==
    /\ pc = "start"
    /\ LET raw == Slice(image, 0, 4096)
           r   == unpack_squashfs_superblock(raw)
       IN  /\ raw_data' = raw
           /\ superblock' = r.ret
           /\ out' = [cmd |-> "open", lines |-> r.out]
           /\ IF r.ret = None
              THEN pc' = "exited" /\ exit_status' = <<1>>
              ELSE pc' = "loop" /\ UNCHANGED exit_status
    /\ UNCHANGED <<image, force, fs_parser, heap, sq, registry, f_pos, calls, sys_modules>>

\* SquashFSExplorer.__init__: read the first 4096 bytes, parse the
\* superblock; sys.exit(1) when the file is shorter than 4 bytes or does not
\* parse, unless force is set.
SquashFSExplorer_init ==
    /\ pc = "start"
    /\ LET raw == Slice(image, 0, 4096)
           r   == unpack_squashfs_superblock(raw)
       IN  /\ raw_data' = raw
           /\ IF Len(raw) < 4 /\ ~force
              THEN /\ superblock' = None
                   /\ pc' = "exited"
                   /\ exit_status' = <<1>>
                   /\ out' = [cmd |-> "open", lines |-> <<"File is too small">>]
              ELSE IF r.raised # ""
              THEN /\ superblock' = None
                   /\ pc' = "crashed"
                   /\ exit_status' = <<1>>
                   /\ out' = [cmd |-> "open", lines |-> <<"Traceback">>]
              ELSE /\ superblock' = r.ret
                   /\ out' = [cmd |-> "open",
                              lines |-> (IF Len(raw) < 4 THEN <<"File is too small">> ELSE <<>>)
                                        \o r.out
                                        \o (IF r.ret # None THEN <<"Successfully opened">>
                                            ELSE <<"Could not parse a valid SquashFS superblock">>)]
                   /\ IF r.ret = None /\ ~force
                      THEN pc' = "exited" /\ exit_status' = <<1>>
                      ELSE pc' = "loop" /\ UNCHANGED exit_status
    /\ UNCHANGED <<image, force, fs_parser, heap, sq, registry, f_pos, calls, sys_modules>>

\* bytes_to_show of the hex and raw handlers
BytesToShow(args, raw) ==
    IF args # <<>> /\ isdigit(args[1]) THEN Min(int(args[1]), Len(raw)) ELSE 64

\* DumpLines with every chunk taken as raw[i:i+step].
DumpLines_unclamped(raw, n, step) ==
    [k \in 1..((n + step - 1) \div step) |-> Slice(raw, (k - 1) * step, k * step)]

\* The lines printed by the dump loop, each as the bytes of its chunk:
\*   for i in range(0, n, step): chunk = raw[i:min(i+step, n)]
DumpLines(raw, n, step) ==
    [k \in 1..((n + step - 1) \div step) |-> Slice(raw, (k - 1) * step, Min(k * step, n))]

\* HexCommand.execute(*args)
HexCommand_execute(args) ==
    /\ pc = "loop"
    /\ LET n == BytesToShow(args, raw_data)
       IN  out' = [cmd |-> "hex", args |-> args, count |-> n,
                   lines |-> DumpLines(raw_data, n, 16)]
    /\ UNCHANGED <<image, force, pc, exit_status, superblock, raw_data, fs_parser, heap, sq, registry, f_pos, calls, sys_modules>>

\* RawCommand.execute(*args)
RawCommand_execute(args) ==
    /\ pc = "loop"
    /\ LET n == BytesToShow(args, raw_data)
       IN  out' = [cmd |-> "raw", args |-> args, count |-> n,
                   lines |-> DumpLines(raw_data, n, 8)]
    /\ UNCHANGED <<image, force, pc, exit_status, superblock, raw_data, fs_parser, heap, sq, registry, f_pos, calls, sys_modules>>

\* ExitCommand.execute: sys.exit(0)
ExitCommand_execute ==
    /\ pc = "loop"
    /\ pc' = "exited"
    /\ exit_status' = <<0>>
    /\ out' = [cmd |-> "exit"]
    /\ UNCHANGED <<image, force, superblock, raw_data, fs_parser, heap, sq, registry, f_pos, calls, sys_modules>>

\* sqpeek.py: SquashFSImage(path) on the same file.  _read_super has read
\* up to 96 bytes from position 0 when unpack_from or the assignment raises.
SquashFSImage_init ==
    /\ pc = "start"
    /\ pc' = "sqpeek"
    /\ sq' = SquashFSImage_read_super(image)
    /\ f_pos' = Min(96, Len(image))
    /\ UNCHANGED <<image, force, exit_status, superblock, raw_data, fs_parser, heap, out, registry, calls, sys_modules>>

(***************************************************************************)
(* squashfs_fs.py: Inode and SquashFSParser                                *)
(***************************************************************************)

DIRECTORY == 1
FILE == 2

\* Inode(...): children is the dict of the directory's entries, as the
\* sequence of its items in insertion order.
Inode(inode_type, mode, uid, gid, mtime, inode_number) ==
    [inode_type     |-> inode_type,
     mode           |-> mode,
     uid            |-> uid,
     gid            |-> gid,
     mtime          |-> mtime,
     inode_number   |-> inode_number,
     size           |-> 0,
     blocks         |-> <<>>,
     fragment       |-> None,
     name           |-> <<>>,
     children       |-> <<>>]

\* self.file.seek(pos); self.file.read(n)
FileRead(img, pos, n) == Slice(img, pos, pos + n)

\* _read_id_table: id_count reads of 4 bytes from id_table_start on, each
\* unpacked with "<I".
ReadIdTable(img, sb) ==
    LET chunk(i) == FileRead(img, sb.id_table_start + 4 * (i - 1), 4)
    IN  IF \E i \in 1..sb.id_count : Len(chunk(i)) # 4
        THEN [exc |-> "struct.error", id_table |-> <<>>]
        ELSE [exc |-> "", id_table |-> [i \in 1..sb.id_count |-> FromLE(chunk(i))]]

\* "<HHIII"
INODE_FMT == <<"H", "H", "I", "I", "I">>

\* _read_root_inode: read 24 bytes at inode_table_start and unpack them.
ReadRootInode(img, sb, id_table) ==
    LET inode_data == FileRead(img, sb.inode_table_start, 24)
        u          == struct_unpack(INODE_FMT, inode_data)
    IN  IF u.exc # ""
        THEN [exc |-> "struct.error", inode |-> None]
        ELSE LET inode_header == u.vals
                 inode_type   == (inode_header[1] \div 4096) % 16
                 permissions  == inode_header[1] % 4096
                 uid_idx      == inode_header[2] % 65536
                 gid_idx      == inode_header[3] % 65536
                 node == Inode(inode_type, permissions,
                               IF uid_idx < Len(id_table) THEN id_table[uid_idx + 1] ELSE 0,
                               IF gid_idx < Len(id_table) THEN id_table[gid_idx + 1] ELSE 0,
                               inode_header[4], inode_header[5])
             IN  [exc |-> "", inode |-> [node EXCEPT !.name = <<"/">>]]

\* SquashFSParser(file_path): exc is the exception the constructor raises
\* ("" when it returns), parser the object built, inodes the Inode objects
\* it created.  _read_directory_entries reads nothing, so the root has no
\* children.
SquashFSParser_init(img) ==
    LET r    == unpack_squashfs_superblock(FileRead(img, 0, 96))
        bare == [superblock |-> None, root_inode |-> "None", id_table |-> <<>>,
                 current_directory |-> "None"]
    IN  IF r.raised # ""
        THEN [exc |-> r.raised, parser |-> None, inodes |-> <<>>]
        ELSE IF r.ret = None
        THEN [exc |-> "", parser |-> bare, inodes |-> <<>>]
        ELSE LET ids == ReadIdTable(img, r.ret)
             IN  IF ids.exc # ""
                 THEN [exc |-> ids.exc, parser |-> None, inodes |-> <<>>]
                 ELSE LET root == ReadRootInode(img, r.ret, ids.id_table)
                      IN  IF root.exc # ""
                          THEN [exc |-> root.exc, parser |-> None, inodes |-> <<>>]
                          ELSE [exc    |-> "",
                                parser |-> [superblock        |-> r.ret,
                                            root_inode        |-> "root",
                                            id_table          |-> ids.id_table,
                                            current_directory |-> "root"],
                                inodes |-> [ref \in {"root"} |-> root.inode]]

\* name in inode.children
HasChild(inode, name) == \E i \in 1..Len(inode.children) : inode.children[i].name = name

\* inode.children[name]
Child(inode, name) ==
    LET i == CHOOSE j \in 1..Len(inode.children) : inode.children[j].name = name
    IN  inode.children[i].ref

\* list_directory(path): the names of the current directory's entries
list_directory(parser, inodes) ==
    IF parser.current_directory # "None"
       /\ inodes[parser.current_directory].inode_type = DIRECTORY
    THEN [i \in 1..Len(inodes[parser.current_directory].children) |->
             inodes[parser.current_directory].children[i].name]
    ELSE <<>>

\* change_directory without the test of the child's type: any child
\* becomes the current directory.
change_directory_any_child(parser, inodes, path) ==
    IF path = <<"/">>
    THEN [ret |-> TRUE, exc |-> "", cwd |-> parser.root_inode]
    ELSE IF parser.current_directory = "None"
    THEN [ret |-> FALSE, exc |-> "AttributeError", cwd |-> parser.current_directory]
    ELSE IF HasChild(inodes[parser.current_directory], path)
    THEN [ret |-> TRUE, exc |-> "",
          cwd |-> Child(inodes[parser.current_directory], path)]
    ELSE [ret |-> FALSE, exc |-> "", cwd |-> parser.current_directory]

\* change_directory(path): ret is the value returned, exc the exception
\* raised, cwd the value of current_directory afterwards.
change_directory(parser, inodes, path) ==
    IF path = <<"/">>
    THEN [ret |-> TRUE, exc |-> "", cwd |-> parser.root_inode]
    ELSE IF parser.current_directory = "None"
    THEN [ret |-> FALSE, exc |-> "AttributeError", cwd |-> parser.current_directory]
    ELSE IF HasChild(inodes[parser.current_directory], path)
            /\ inodes[Child(inodes[parser.current_directory], path)].inode_type = DIRECTORY
    THEN [ret |-> TRUE, exc |-> "",
          cwd |-> Child(inodes[parser.current_directory], path)]
    ELSE [ret |-> FALSE, exc |-> "", cwd |-> parser.current_directory]

(***************************************************************************)
(* zlib and lzma, as far as the payloads of the model need them: a zlib    *)
(* stream whose deflate blocks are all stored blocks is decoded in full    *)
(* (header check, block lengths, Adler-32 trailer); a stream with a        *)
(* Huffman-coded block lies outside the model and has no value here.       *)
(***************************************************************************)

Front(s) == SubSeq(s, 1, Len(s) - 1)

RECURSIVE AdlerA(_)
AdlerA(d) == IF d = <<>> THEN 1 ELSE (AdlerA(Front(d)) + d[Len(d)]) % 65521

RECURSIVE AdlerB(_)
AdlerB(d) == IF d = <<>> THEN 0 ELSE (AdlerB(Front(d)) + AdlerA(d)) % 65521

\* The Adler-32 checksum as it is stored: four bytes, most significant first.
Adler32Bytes(d) ==
    <<AdlerB(d) \div 256, AdlerB(d) % 256, AdlerA(d) \div 256, AdlerA(d) % 256>>

\* Inflate from a block header on: acc are the bytes produced so far, rest
\* what follows the final block.
RECURSIVE InflateStored(_, _)
InflateStored(d, acc) ==
    IF Len(d) < 1 THEN [exc |-> "zlib.error", ret |-> <<>>, rest |-> <<>>]
    ELSE LET bfinal == d[1] % 2
             btype  == (d[1] \div 2) % 4
         IN  CASE btype = 3 -> [exc |-> "zlib.error", ret |-> <<>>, rest |-> <<>>]
               [] btype = 0 ->
                    IF Len(d) < 5
                    THEN [exc |-> "zlib.error", ret |-> <<>>, rest |-> <<>>]
                    ELSE LET len  == d[2] + 256 * d[3]
                             nlen == d[4] + 256 * d[5]
                         IN  IF len + nlen # 65535 \/ Len(d) < 5 + len
                             THEN [exc |-> "zlib.error", ret |-> <<>>, rest |-> <<>>]
                             ELSE IF bfinal = 1
                             THEN [exc  |-> "",
                                   ret  |-> acc \o SubSeq(d, 6, 5 + len),
                                   rest |-> SubSeq(d, 6 + len, Len(d))]
                             ELSE InflateStored(SubSeq(d, 6 + len, Len(d)),
                                                acc \o SubSeq(d, 6, 5 + len))

\* zlib.decompress(data): bytes after the trailer are ignored.
zlib_decompress(data) ==
    IF Len(data) < 2 THEN [exc |-> "zlib.error", ret |-> <<>>]
    ELSE IF \/ data[1] % 16 # 8
            \/ data[1] \div 16 > 7
            \/ (data[1] * 256 + data[2]) % 31 # 0
            \/ (data[2] \div 32) % 2 # 0
    THEN [exc |-> "zlib.error", ret |-> <<>>]
    ELSE LET r == InflateStored(SubSeq(data, 3, Len(data)), <<>>)
         IN  IF r.exc # "" THEN [exc |-> "zlib.error", ret |-> <<>>]
             ELSE IF Len(r.rest) < 4 \/ SubSeq(r.rest, 1, 4) # Adler32Bytes(r.ret)
             THEN [exc |-> "zlib.error", ret |-> <<>>]
             ELSE [exc |-> "", ret |-> r.ret]

XZ_MAGIC == <<253, 55, 122, 88, 90, 0>>

\* The 13-byte header of the legacy .lzma format as liblzma's automatic
\* detection accepts it:
\*   byte 1       the properties, (pb * 5 + lp) * 9 + lc, with lc + lp <= 4;
\*   bytes 2..5   the dictionary size, which is 2^n or 2^n + 2^(n-1) in
\*                32 bits (0 and 2^31 + 2^30 included) or 0xffffffff;
\*   bytes 6..13  the uncompressed size, which is below 2^38 or unknown
\*                (all bytes 255).
\* The sizes are tested byte by byte where they exceed 2^31.
IsAloneHeader(d) ==
    /\ Len(d) >= 13
    /\ d[1] < 225
    /\ (d[1] % 9) + ((d[1] \div 9) % 5) <= 4
    /\ \/ SubSeq(d, 2, 5) \in {<<255, 255, 255, 255>>, <<0, 0, 0, 0>>,
                                <<0, 0, 0, 128>>, <<0, 0, 0, 192>>}
       \/ /\ d[5] < 128
          /\ LET size == FromLE(SubSeq(d, 2, 5))
             IN  \E n \in 0..30 : size = 2 ^ n \/ (n > 0 /\ size = 2 ^ n + 2 ^ (n - 1))
    /\ \/ \A i \in 6..13 : d[i] = 255
       \/ (d[10] < 64 /\ d[11] = 0 /\ d[12] = 0 /\ d[13] = 0)

\* The 6-byte header of an lzip member as liblzma's automatic detection
\* accepts it: the magic "LZIP", version 0 or 1, and a dictionary size byte
\* whose low five bits are 12..29, with no fraction (the high three bits)
\* taken from the smallest size.
IsLzipHeader(d) ==
    /\ Len(d) >= 6
    /\ SubSeq(d, 1, 4) = <<76, 90, 73, 80>>
    /\ d[5] \in {0, 1}
    /\ (d[6] % 32) \in 12..29
    /\ ((d[6] % 32) = 12 => d[6] \div 32 = 0)

\* lzma.decompress(data, format) on data that begins neither as an .xz, nor
\* as a .lzma stream, nor as an lzip member; xz is TRUE for FORMAT_XZ and
\* FALSE for FORMAT_AUTO, which tries all three.  Data with an accepted
\* header lies outside the model and has no value here.
lzma_decompress(data, xz) ==
    CASE /\ SubSeq(data, 1, Min(6, Len(data))) # XZ_MAGIC
         /\ (xz \/ (~IsAloneHeader(data) /\ ~IsLzipHeader(data)))
           -> [exc |-> "LZMAError", ret |-> <<>>]

GZIP == 1
LZMA == 2
LZO == 3
XZ == 4
LZ4 == 5
ZSTD == 6

\* _decompress_block(compressed_data, uncompressed_size)
decompress_block(parser, compressed_data, uncompressed_size) ==
    IF parser.superblock = None THEN [exc |-> "", ret |-> <<>>]
    ELSE LET compression_id == parser.superblock.compression_id
         IN  CASE compression_id = GZIP -> zlib_decompress(compressed_data)
               [] compression_id = LZMA -> lzma_decompress(compressed_data, FALSE)
               [] compression_id = XZ   -> lzma_decompress(compressed_data, TRUE)
               [] compression_id = LZ4  -> [exc |-> "NotImplementedError", ret |-> <<>>]
               [] compression_id = ZSTD -> [exc |-> "NotImplementedError", ret |-> <<>>]
               [] OTHER                 -> [exc |-> "ValueError", ret |-> <<>>]

DataBlock(compressed_data, uncompressed_size) ==
    [compressed_data |-> compressed_data, uncompressed_size |-> uncompressed_size]

Fragment(index, offset, size) == [index |-> index, offset |-> offset, size |-> size]

\* The loop over file_inode.blocks: content grows by each block's
\* decompressed bytes; the first exception ends the loop.
RECURSIVE ReadBlocks(_, _, _)
ReadBlocks(parser, blocks, content) ==
    IF blocks = <<>> THEN [exc |-> "", ret |-> content]
    ELSE LET r == decompress_block(parser, Head(blocks).compressed_data,
                                   Head(blocks).uncompressed_size)
         IN  IF r.exc # "" THEN [exc |-> r.exc, ret |-> <<>>]
             ELSE ReadBlocks(parser, Tail(blocks), content \o r.ret)

\* get_file_content(filename): the blocks' bytes trimmed to the declared
\* size; the fragment is not read.
get_file_content(parser, inodes, filename) ==
    IF parser.current_directory # "None"
       /\ HasChild(inodes[parser.current_directory], filename)
       /\ inodes[Child(inodes[parser.current_directory], filename)].inode_type = FILE
    THEN LET file_inode == inodes[Child(inodes[parser.current_directory], filename)]
             r          == ReadBlocks(parser, file_inode.blocks, <<>>)
         IN  IF r.exc # "" THEN r
             ELSE [exc |-> "", ret |-> Slice(r.ret, 0, file_inode.size)]
    ELSE [exc |-> "", ret |-> <<>>]

(***************************************************************************)
(* commands/mount.py, ls.py, cd.py, cat.py                                 *)
(***************************************************************************)

\* MountCommand.execute that also replaces the explorer's raw bytes by the
\* 96 bytes the parser read.
MountCommand_execute_rereads ==
    /\ pc = "loop"
    /\ LET r == SquashFSParser_init(image)
       IN  IF r.exc # ""
           THEN /\ out' = [cmd |-> "mount", lines |-> <<"Error mounting filesystem">>,
                           exc |-> r.exc]
                /\ UNCHANGED <<fs_parser, heap>>
           ELSE /\ fs_parser' = r.parser
                /\ heap' = r.inodes
                /\ out' = [cmd |-> "mount",
                           lines |-> IF r.parser.superblock # None
                                     THEN <<"SquashFS filesystem mounted successfully.">>
                                     ELSE <<"Failed to mount SquashFS filesystem.">>,
                           exc |-> ""]
    /\ raw_data' = FileRead(image, 0, 96)
    /\ UNCHANGED <<image, force, pc, exit_status, superblock, sq, registry, f_pos, calls, sys_modules>>

\* MountCommand.execute: build a parser on the explorer's file; the
\* assignment to explorer.fs_parser happens only when the constructor returns.
MountCommand_execute ==
    /\ pc = "loop"
    /\ LET r == SquashFSParser_init(image)
       IN  IF r.exc # ""
           THEN /\ out' = [cmd |-> "mount", lines |-> <<"Error mounting filesystem">>,
                           exc |-> r.exc]
                /\ UNCHANGED <<fs_parser, heap>>
           ELSE /\ fs_parser' = r.parser
                /\ heap' = r.inodes
                /\ out' = [cmd |-> "mount",
                           lines |-> IF r.parser.superblock # None
                                     THEN <<"SquashFS filesystem mounted successfully.">>
                                     ELSE <<"Failed to mount SquashFS filesystem.">>,
                           exc |-> ""]
    /\ UNCHANGED <<image, force, pc, exit_status, superblock, raw_data, sq, registry, f_pos, calls, sys_modules>>

\* ListCommand.execute in which listing a directory uses its entries up:
\* the directory is left empty.
ListCommand_execute_consuming ==
    /\ pc = "loop"
    /\ IF fs_parser = None
       THEN /\ out' = [cmd |-> "ls", lines |-> <<"SquashFS filesystem not mounted.">>,
                       entries |-> <<>>, names |-> {}]
            /\ UNCHANGED heap
       ELSE LET entries == list_directory(fs_parser, heap)
            IN  /\ out' = [cmd |-> "ls",
                           lines |-> IF entries = <<>>
                                     THEN <<"No files or directories found.">>
                                     ELSE <<"Directory contents:">>,
                           entries |-> entries,
                           names |-> {entries[i] : i \in 1..Len(entries)}]
                /\ heap' = IF entries = <<>> THEN heap
                           ELSE [heap EXCEPT ![fs_parser.current_directory].children = <<>>]
    /\ UNCHANGED <<image, force, pc, exit_status, superblock, raw_data, fs_parser, sq, registry, f_pos, calls, sys_modules>>

\* ListCommand.execute: entries is the list list_directory returned; the
\* names are printed sorted, so the printed output is given as their set.
ListCommand_execute ==
    /\ pc = "loop"
    /\ IF fs_parser = None
       THEN out' = [cmd |-> "ls", lines |-> <<"SquashFS filesystem not mounted.">>,
                    entries |-> <<>>, names |-> {}]
       ELSE LET entries == list_directory(fs_parser, heap)
            IN  out' = [cmd |-> "ls",
                        lines |-> IF entries = <<>>
                                  THEN <<"No files or directories found.">>
                                  ELSE <<"Directory contents:">>,
                        entries |-> entries,
                        names |-> {entries[i] : i \in 1..Len(entries)}]
    /\ UNCHANGED <<image, force, pc, exit_status, superblock, raw_data, fs_parser, heap, sq, registry, f_pos, calls, sys_modules>>

\* ChangeDirectoryCommand.execute(*args)
ChangeDirectoryCommand_execute(args) ==
    /\ pc = "loop"
    /\ IF fs_parser = None
       THEN /\ out' = [cmd |-> "cd", args |-> args,
                       lines |-> <<"SquashFS filesystem not mounted.">>]
            /\ UNCHANGED fs_parser
       ELSE IF args = <<>>
       THEN /\ out' = [cmd |-> "cd", args |-> args, lines |-> <<"Usage: cd <directory>">>]
            /\ UNCHANGED fs_parser
       ELSE LET r == change_directory(fs_parser, heap, args[1])
            IN  /\ fs_parser' = [fs_parser EXCEPT !.current_directory = r.cwd]
                /\ out' = [cmd |-> "cd", args |-> args,
                           lines |-> IF r.exc # "" THEN <<"Error changing directory">>
                                     ELSE IF r.ret THEN <<"Changed directory to">>
                                     ELSE <<"Directory not found">>]
    /\ UNCHANGED <<image, force, pc, exit_status, superblock, raw_data, heap, sq, registry, f_pos, calls, sys_modules>>

\* The position of the first byte of content that is not ASCII.
FirstNonAscii(content) ==
    CHOOSE i \in 1..Len(content) : content[i] >= 128 /\ \A j \in 1..(i - 1) : content[j] < 128

\* content.decode('utf-8') succeeds.  Decided for content that is all ASCII
\* or whose first non-ASCII byte cannot start a UTF-8 sequence.
Utf8Decodes(content) ==
    CASE \A i \in 1..Len(content) : content[i] < 128 -> TRUE
      [] (\E i \in 1..Len(content) : content[i] >= 128)
         /\ content[FirstNonAscii(content)] \in (128..193) \cup (245..255) -> FALSE

\* CatCommand.execute(*args): content is what get_file_content returned.
CatCommand_execute(args) ==
    /\ pc = "loop"
    /\ IF fs_parser = None
       THEN out' = [cmd |-> "cat", args |-> args, exc |-> "", content |-> <<>>,
                    lines |-> <<"SquashFS filesystem not mounted.">>]
       ELSE IF args = <<>>
       THEN out' = [cmd |-> "cat", args |-> args, exc |-> "", content |-> <<>>,
                    lines |-> <<"Usage: cat <filename>">>]
       ELSE LET r == get_file_content(fs_parser, heap, args[1])
            IN  out' = [cmd |-> "cat", args |-> args, exc |-> r.exc, content |-> r.ret,
                        lines |-> IF r.exc # "" THEN <<"Error reading file">>
                                  ELSE IF r.ret = <<>> THEN <<"File not found or is empty">>
                                  ELSE IF Utf8Decodes(r.ret) THEN <<"File contents of">>
                                  ELSE <<"Binary file">>
                                       \o (IF Len(r.ret) > 256 THEN <<"... truncated">>
                                           ELSE <<>>)]
    /\ UNCHANGED <<image, force, pc, exit_status, superblock, raw_data, fs_parser, heap, sq, registry, f_pos, calls, sys_modules>>

(***************************************************************************)
(* commands/__init__.py: the registry and the register decorator           *)
(***************************************************************************)

UpperChars ==
    <<"A", "B", "C", "D", "E", "F", "G", "H", "I", "J", "K", "L", "M",
      "N", "O", "P", "Q", "R", "S", "T", "U", "V", "W", "X", "Y", "Z">>

LowerChars ==
    <<"a", "b", "c", "d", "e", "f", "g", "h", "i", "j", "k", "l", "m",
      "n", "o", "p", "q", "r", "s", "t", "u", "v", "w", "x", "y", "z">>

\* c.isupper() and c.lower() for one ASCII character
isupper(c) == \E i \in 1..26 : UpperChars[i] = c

lower(c) == IF isupper(c) THEN LowerChars[CHOOSE i \in 1..26 : UpperChars[i] = c] ELSE c

\* s.lower()
Lower(s) == [i \in 1..Len(s) |-> lower(s[i])]

\* ''.join(['_' + c.lower() if c.isupper() else c for c in s])
RECURSIVE Snake(_)
Snake(s) ==
    IF s = <<>> THEN <<>>
    ELSE (IF isupper(Head(s)) THEN <<"_", lower(Head(s))>> ELSE <<Head(s)>>) \o Snake(Tail(s))

\* s.lstrip(ch)
RECURSIVE lstrip(_, _)
lstrip(s, c) == IF s # <<>> /\ Head(s) = c THEN lstrip(Tail(s), c) ELSE s

\* s.replace(old, new) for a non-empty old
RECURSIVE replace(_, _, _)
replace(s, old, new) ==
    IF Len(s) < Len(old) THEN s
    ELSE IF SubSeq(s, 1, Len(old)) = old
    THEN new \o replace(SubSeq(s, Len(old) + 1, Len(s)), old, new)
    ELSE <<Head(s)>> \o replace(Tail(s), old, new)

\* The Python values given to register: a str, a list of str, a class.
Str(s) == [kind |-> "str", val |-> s]
List(l) == [kind |-> "list", val |-> l]
Class(c) == [kind |-> "class", val |-> c]

\* The modules of the commands package: the class each defines, the class's
\* __name__, and its decoration: <<"none", <<>>>> for an undecorated class,
\* <<"bare", <<>>>> for @register, <<"call", args>> for @register(*args).
CommandModules ==
    <<
      [module |-> "block", cls |-> "BlockCommand",
       chars |-> <<"B", "l", "o", "c", "k", "C", "o", "m", "m", "a", "n", "d">>,
       deco |-> <<"call", <<>>>>],
      [module |-> "cat", cls |-> "CatCommand",
       chars |-> <<"C", "a", "t", "C", "o", "m", "m", "a", "n", "d">>,
       deco |-> <<"none", <<>>>>],
      [module |-> "cd", cls |-> "ChangeDirectoryCommand",
       chars |-> <<"C", "h", "a", "n", "g", "e", "D", "i", "r", "e", "c", "t", "o", "r", "y", "C", "o", "m", "m", "a", "n", "d">>,
       deco |-> <<"none", <<>>>>],
      [module |-> "compression", cls |-> "CompressionCommand",
       chars |-> <<"C", "o", "m", "p", "r", "e", "s", "s", "i", "o", "n", "C", "o", "m", "m", "a", "n", "d">>,
       deco |-> <<"none", <<>>>>],
      [module |-> "date", cls |-> "DateCommand",
       chars |-> <<"D", "a", "t", "e", "C", "o", "m", "m", "a", "n", "d">>,
       deco |-> <<"call", <<>>>>],
      [module |-> "exit", cls |-> "ExitCommand",
       chars |-> <<"E", "x", "i", "t", "C", "o", "m", "m", "a", "n", "d">>,
       deco |-> <<"call", <<Str(<<"e", "x", "i", "t">>), Str(<<"q", "u", "i", "t">>)>>>>],
      [module |-> "flags", cls |-> "FlagsCommand",
       chars |-> <<"F", "l", "a", "g", "s", "C", "o", "m", "m", "a", "n", "d">>,
       deco |-> <<"call", <<>>>>],
      [module |-> "help", cls |-> "HelpCommand",
       chars |-> <<"H", "e", "l", "p", "C", "o", "m", "m", "a", "n", "d">>,
       deco |-> <<"call", <<>>>>],
      [module |-> "hex", cls |-> "HexCommand",
       chars |-> <<"H", "e", "x", "C", "o", "m", "m", "a", "n", "d">>,
       deco |-> <<"call", <<>>>>],
      [module |-> "info", cls |-> "InfoCommand",
       chars |-> <<"I", "n", "f", "o", "C", "o", "m", "m", "a", "n", "d">>,
       deco |-> <<"call", <<>>>>],
      [module |-> "ls", cls |-> "ListCommand",
       chars |-> <<"L", "i", "s", "t", "C", "o", "m", "m", "a", "n", "d">>,
       deco |-> <<"none", <<>>>>],
      [module |-> "magic", cls |-> "MagicCommand",
       chars |-> <<"M", "a", "g", "i", "c", "C", "o", "m", "m", "a", "n", "d">>,
       deco |-> <<"call", <<>>>>],
      [module |-> "mount", cls |-> "MountCommand",
       chars |-> <<"M", "o", "u", "n", "t", "C", "o", "m", "m", "a", "n", "d">>,
       deco |-> <<"none", <<>>>>],
      [module |-> "offsets", cls |-> "OffsetsCommand",
       chars |-> <<"O", "f", "f", "s", "e", "t", "s", "C", "o", "m", "m", "a", "n", "d">>,
       deco |-> <<"call", <<>>>>],
      [module |-> "raw", cls |-> "RawCommand",
       chars |-> <<"R", "a", "w", "C", "o", "m", "m", "a", "n", "d">>,
       deco |-> <<"call", <<>>>>],
      [module |-> "size", cls |-> "SizeCommand",
       chars |-> <<"S", "i", "z", "e", "C", "o", "m", "m", "a", "n", "d">>,
       deco |-> <<"none", <<>>>>],
      [module |-> "version", cls |-> "VersionCommand",
       chars |-> <<"V", "e", "r", "s", "i", "o", "n", "C", "o", "m", "m", "a", "n", "d">>,
       deco |-> <<"call", <<>>>>]
    >>

ModuleOf(m) == CommandModules[CHOOSE i \in 1..Len(CommandModules) : CommandModules[i].module = m]

\* cls.__name__
ClassName(cls) ==
    CommandModules[CHOOSE i \in 1..Len(CommandModules) : CommandModules[i].cls = cls].chars

\* name in COMMAND_REGISTRY and COMMAND_REGISTRY[name]
Registered(reg, name) == \E i \in 1..Len(reg) : reg[i].name = name

Lookup(reg, name) == reg[CHOOSE i \in 1..Len(reg) : reg[i].name = name].cls

\* COMMAND_REGISTRY[name] = cls: a key the dict holds keeps its position.
SetItem(reg, name, cls) ==
    IF Registered(reg, name)
    THEN [i \in 1..Len(reg) |-> IF reg[i].name = name THEN [name |-> name, cls |-> cls]
                                ELSE reg[i]]
    ELSE Append(reg, [name |-> name, cls |-> cls])

\* for n in names: COMMAND_REGISTRY[n] = cls
RECURSIVE SetItems(_, _, _)
SetItems(reg, names, cls) ==
    IF names = <<>> THEN reg
    ELSE SetItems(SetItem(reg, Head(names), cls), Tail(names), cls)

\* decorator(cls) inside register, name being register's argument or None
decorator(name, cls, reg) ==
    IF name = None
    THEN SetItem(reg,
                 replace(lstrip(Snake(ClassName(cls)), "_"),
                         <<"_", "c", "o", "m", "m", "a", "n", "d">>, <<>>),
                 cls)
    ELSE IF name.kind = "str" THEN SetItem(reg, name.val, cls)
    ELSE SetItems(reg, name.val, cls)

\* register(*args) followed by the decoration of the class cls.  register
\* takes at most one positional argument.  "@register" without a call
\* passes the class as that argument (args = <<Class(cls)>>): being
\* callable it is registered under its derived name and returned.
\* exc is the exception raised, registry the registry afterwards, ret the
\* object the class statement binds.
register(args, cls, reg) ==
    IF Len(args) > 1 THEN [exc |-> "TypeError", registry |-> reg, ret |-> None]
    ELSE IF args # <<>> /\ args[1].kind = "class"
    THEN [exc |-> "", registry |-> decorator(None, args[1].val, reg), ret |-> Class(args[1].val)]
    ELSE [exc      |-> "",
          registry |-> decorator(IF args = <<>> THEN None ELSE args[1], cls, reg),
          ret      |-> Class(cls)]

\* The class statement of a module under its decoration.
Decorate(deco, cls, reg) ==
    CASE deco[1] = "none" -> [exc |-> "", registry |-> reg, ret |-> Class(cls)]
      [] deco[1] = "bare" -> register(<<Class(cls)>>, cls, reg)
      [] deco[1] = "call" -> register(deco[2], cls, reg)

(***************************************************************************)
(* The handlers that only print: block, compression, date, flags, help,    *)
(* info, magic, offsets, size, version.  out holds the kinds of the lines  *)
(* printed and the numbers shown in them.                                  *)
(***************************************************************************)

\* A handler that prints o and assigns nothing.
Prints(o) ==
    /\ pc = "loop"
    /\ out' = o
    /\ UNCHANGED <<image, force, pc, exit_status, superblock, raw_data, fs_parser, heap, sq, registry, f_pos, calls, sys_modules>>

NoSuperblock(cmd) == [cmd |-> cmd, lines |-> <<"No valid superblock found.">>]

\* CompressionID(comp_id).name; when the enum has no such member the text is
\* "Unknown" followed by the identifier, which out carries among its values.
CompressionName(comp_id) ==
    CASE comp_id = GZIP -> "GZIP" [] comp_id = LZMA -> "LZMA" [] comp_id = LZO -> "LZO"
      [] comp_id = XZ -> "XZ" [] comp_id = LZ4 -> "LZ4" [] comp_id = ZSTD -> "ZSTD"
      [] OTHER -> "Unknown"

BlockCommand_execute ==
    Prints(IF superblock = None THEN NoSuperblock("block")
           ELSE [cmd |-> "block", lines |-> <<"Block size:", "Block log:">>,
                 values |-> <<superblock.block_size, superblock.block_log>>])

CompressionCommand_execute ==
    Prints(IF superblock = None THEN NoSuperblock("compression")
           ELSE [cmd |-> "compression",
                 lines |-> <<"Compression method:">> \o
                           (IF superblock.compression_id \in {GZIP, LZMA, LZO, XZ, LZ4, ZSTD}
                            THEN <<"Description:">> ELSE <<>>),
                 name |-> CompressionName(superblock.compression_id),
                 values |-> <<superblock.compression_id>>])

\* The formatted date of the first line is not part of out.
DateCommand_execute ==
    Prints(IF superblock = None THEN NoSuperblock("date")
           ELSE [cmd |-> "date", lines |-> <<"Filesystem creation date:", "Unix timestamp:">>,
                 values |-> <<superblock.modification_time>>])

\* The keys of flag_descriptions, in the dict's order
FlagBits == <<1, 2, 4, 8, 16, 32, 64, 128, 256, 512, 1024, 2048>>

FlagsCommand_execute ==
    Prints(IF superblock = None THEN NoSuperblock("flags")
           ELSE LET active == SelectSeq(FlagBits, LAMBDA b : (superblock.flags \div b) % 2 = 1)
                IN  [cmd |-> "flags",
                     lines |-> <<"Superblock flags:">> \o
                               (IF active # <<>> THEN <<"Active flags:">>
                                ELSE <<"No flags are set.">>),
                     values |-> <<superblock.flags>> \o active])

\* HelpCommand.execute: max() of no names raises ValueError; otherwise the
\* first name of every class is listed (sorted, hence a set) and the other
\* names of a class are listed as aliases of its first name.
HelpCommand_execute ==
    Prints(IF registry = <<>>
           THEN [cmd |-> "help", exc |-> "ValueError", lines |-> <<"Available commands:">>]
           ELSE LET primary(i) == \A j \in 1..(i - 1) : registry[j].cls # registry[i].cls
                    first(i)   == CHOOSE j \in 1..Len(registry) :
                                      primary(j) /\ registry[j].cls = registry[i].cls
                    aliases    == { <<registry[first(i)].name, registry[i].name>> :
                                      i \in {k \in 1..Len(registry) : ~primary(k)} }
                IN  [cmd |-> "help", exc |-> "",
                     lines |-> <<"Available commands:">> \o
                               (IF aliases # {} THEN <<"Command aliases:">> ELSE <<>>)
                               \o <<"Usage: command [arguments]">>,
                     names |-> { registry[i].name : i \in {k \in 1..Len(registry) : primary(k)} },
                     aliases |-> aliases])

InfoCommand_execute ==
    Prints(IF superblock = None THEN NoSuperblock("info")
           ELSE [cmd |-> "info", lines |-> <<"SquashFS Superblock Information:">>,
                 name |-> CompressionName(superblock.compression_id),
                 values |-> superblock])

MagicCommand_execute ==
    Prints(IF Len(raw_data) < 4
           THEN [cmd |-> "magic", lines |-> <<"File is too small to contain a magic number.">>]
           ELSE LET magic == FromLE(Slice(raw_data, 0, 4))
                IN  [cmd |-> "magic",
                     lines |-> <<"Magic number:">> \o
                               (IF magic = SQUASHFS_MAGIC
                                THEN <<"This is a valid SquashFS magic number">>
                                ELSE <<"Invalid magic number.", "ASCII interpretation:">>),
                     values |-> <<magic>>])

OffsetsCommand_execute ==
    Prints(IF superblock = None THEN NoSuperblock("offsets")
           ELSE [cmd |-> "offsets", lines |-> <<"Table offsets:">>,
                 values |-> <<superblock.id_table_start, superblock.xattr_id_table_start,
                              superblock.inode_table_start, superblock.directory_table_start,
                              superblock.fragment_table_start, superblock.export_table_start>>])

\* os.path.getsize of the image file is its length.
SizeCommand_execute ==
    Prints(IF superblock = None
           THEN [cmd |-> "size", lines |-> <<"No valid superblock found.", "File size:">>,
                 values |-> <<Len(image)>>]
           ELSE [cmd |-> "size",
                 lines |-> <<"Filesystem size:", "Block size:", "Inode count:",
                             "Fragment entry count:">> \o
                           (IF Len(image) > 0 THEN <<"SquashFS file size:">> ELSE <<>>),
                 values |-> <<superblock.bytes_used, superblock.block_size,
                              superblock.inode_count, superblock.fragment_entry_count,
                              Len(image)>>])

VersionCommand_execute ==
    Prints(IF superblock = None THEN NoSuperblock("version")
           ELSE [cmd |-> "version", lines |-> <<"SquashFS Version:">>,
                 values |-> <<superblock.version_major, superblock.version_minor>>])

(***************************************************************************)
(* tool.py: the command loop, and the import of a commands module          *)
(***************************************************************************)

\* command_class(self).execute(*args)
Execute(cls, args) ==
    CASE cls = "HexCommand" -> HexCommand_execute(args)
      [] cls = "RawCommand" -> RawCommand_execute(args)
      [] cls = "ExitCommand" -> ExitCommand_execute
      [] cls = "MountCommand" -> MountCommand_execute
      [] cls = "ListCommand" -> ListCommand_execute
      [] cls = "ChangeDirectoryCommand" -> ChangeDirectoryCommand_execute(args)
      [] cls = "CatCommand" -> CatCommand_execute(args)
      [] cls = "BlockCommand" -> BlockCommand_execute
      [] cls = "CompressionCommand" -> CompressionCommand_execute
      [] cls = "DateCommand" -> DateCommand_execute
      [] cls = "FlagsCommand" -> FlagsCommand_execute
      [] cls = "HelpCommand" -> HelpCommand_execute
      [] cls = "InfoCommand" -> InfoCommand_execute
      [] cls = "MagicCommand" -> MagicCommand_execute
      [] cls = "OffsetsCommand" -> OffsetsCommand_execute
      [] cls = "SizeCommand" -> SizeCommand_execute
      [] cls = "VersionCommand" -> VersionCommand_execute

\* One turn of the loop of SquashFSExplorer.run on an input line whose
\* first word is word and whose remainder, if any, is the one element of
\* args: the lower-cased word is looked up in COMMAND_REGISTRY.
SquashFSExplorer_run(word, args) ==
    /\ pc = "loop"
    /\ IF Registered(registry, Lower(word))
       THEN Execute(Lookup(registry, Lower(word)), args)
       ELSE /\ out' = [cmd |-> "unknown", name |-> Lower(word),
                       lines |-> <<"Unknown command:", "Type 'help' for a list of commands.">>]
            /\ UNCHANGED <<image, force, pc, exit_status, superblock, raw_data, fs_parser,
                           heap, sq, registry, f_pos, calls, sys_modules>>

\* One turn of the loop on a line that is empty once stripped: continue.
SquashFSExplorer_run_empty ==
    /\ pc = "loop"
    /\ out' = [cmd |-> "empty", lines |-> <<>>]
    /\ UNCHANGED <<image, force, pc, exit_status, superblock, raw_data, fs_parser, heap, sq,
                   registry, f_pos, calls, sys_modules>>

\* The loop in which a KeyboardInterrupt is not caught: it leaves run and
\* ends the process.
SquashFSExplorer_run_interrupt_uncaught ==
    /\ pc = "loop"
    /\ pc' = "exited"
    /\ exit_status' = <<130>>
    /\ out' = [cmd |-> "interrupt", lines |-> <<>>]
    /\ UNCHANGED <<image, force, superblock, raw_data, fs_parser, heap, sq, registry, f_pos,
                   calls, sys_modules>>

\* One turn of the loop in which input() is interrupted from the keyboard:
\* the except clause for KeyboardInterrupt prints and the loop goes on.
SquashFSExplorer_run_interrupt ==
    /\ pc = "loop"
    /\ out' = [cmd |-> "interrupt", lines |-> <<"Received interrupt. Type 'exit' to quit.">>]
    /\ UNCHANGED <<image, force, pc, exit_status, superblock, raw_data, fs_parser, heap, sq,
                   registry, f_pos, calls, sys_modules>>

\* One turn of the loop in which input() finds the end of its input: the
\* EOFError is caught by the except clause for Exception.
SquashFSExplorer_run_eof ==
    /\ pc = "loop"
    /\ out' = [cmd |-> "input", exc |-> "EOFError", lines |-> <<"Error:">>]
    /\ UNCHANGED <<image, force, pc, exit_status, superblock, raw_data, fs_parser, heap, sq,
                   registry, f_pos, calls, sys_modules>>

\* import commands.<m>, before the explorer is built.  A module found in
\* sys.modules is not run again; else the class statement of the module
\* runs under its decoration, and the module enters sys.modules only when
\* its code has raised nothing.
ImportCommandModule(m) ==
    /\ pc = "start"
    /\ IF m \in sys_modules
       THEN /\ out' = [cmd |-> "import", module |-> m, exc |-> "", ret |-> None,
                       decorated |-> FALSE]
            /\ UNCHANGED <<registry, sys_modules>>
       ELSE LET r == Decorate(ModuleOf(m).deco, ModuleOf(m).cls, registry)
            IN  /\ registry' = r.registry
                /\ sys_modules' = IF r.exc = "" THEN sys_modules \cup {m} ELSE sys_modules
                /\ out' = [cmd |-> "import", module |-> m, exc |-> r.exc, ret |-> r.ret,
                           decorated |-> ModuleOf(m).deco[1] # "none"]
    /\ UNCHANGED <<image, force, pc, exit_status, superblock, raw_data, fs_parser, heap, sq, f_pos, calls>>

\* A class statement for cls decorated with @register(*args), or with
\* @register alone when bare.
RegisterClass(bare, args, cls) ==
    /\ pc = "start"
    /\ LET r == Decorate(IF bare THEN <<"bare", <<>>>> ELSE <<"call", args>>, cls, registry)
       IN  /\ registry' = r.registry
           /\ out' = [cmd |-> "register", bare |-> bare, args |-> args, cls |-> cls,
                      exc |-> r.exc, ret |-> r.ret]
    /\ UNCHANGED <<image, force, pc, exit_status, superblock, raw_data, fs_parser, heap, sq, f_pos, calls, sys_modules>>

\* The names of the commands the package defines.
CommandNames ==
    { <<"h", "e", "l", "p">>,
      <<"i", "n", "f", "o">>,
      <<"d", "a", "t", "e">>,
      <<"c", "o", "m", "p", "r", "e", "s", "s", "i", "o", "n">>,
      <<"s", "i", "z", "e">>,
      <<"v", "e", "r", "s", "i", "o", "n">>,
      <<"b", "l", "o", "c", "k">>,
      <<"f", "l", "a", "g", "s">>,
      <<"o", "f", "f", "s", "e", "t", "s">>,
      <<"h", "e", "x">>,
      <<"r", "a", "w">>,
      <<"m", "a", "g", "i", "c">>,
      <<"m", "o", "u", "n", "t">>,
      <<"l", "s">>,
      <<"c", "d">>,
      <<"c", "a", "t">>,
      <<"e", "x", "i", "t">>,
      <<"q", "u", "i", "t">> }

\* The paths given to cd.
Paths ==
    { <<"/">>, <<"/", "/">>, <<>>, <<"a">>, <<"/", "a">>, <<"a", "/">>,
      <<"f">>, <<"f", "/", "x">>, <<"z">>, <<"z", "/", "x">>, <<"b">>,
      <<"/", "a", "/", "b", "/", "c">>, <<"a", "/", "b", "/", "c">>,
      <<"/", "a", "/", "/", "b", "/", "c", "/">> }

Next ==
    \/ SquashFSExplorer_init
    \/ \E args \in CommandArgs : HexCommand_execute(args)
    \/ \E args \in CommandArgs : RawCommand_execute(args)
    \/ MountCommand_execute
    \/ ListCommand_execute
    \/ \E args \in {<<>>} \cup {<<p>> : p \in Paths} : ChangeDirectoryCommand_execute(args)
    \/ \E args \in {<<>>, <<<<"f">>>>} : CatCommand_execute(args)
    \/ BlockCommand_execute
    \/ CompressionCommand_execute
    \/ DateCommand_execute
    \/ FlagsCommand_execute
    \/ HelpCommand_execute
    \/ InfoCommand_execute
    \/ MagicCommand_execute
    \/ OffsetsCommand_execute
    \/ SizeCommand_execute
    \/ VersionCommand_execute
    \/ \E word \in {<<"h", "e", "l", "p">>, <<"m", "o", "u", "n", "t">>,
                     <<"q", "u", "i", "t">>} : SquashFSExplorer_run(word, <<>>)
    \/ SquashFSExplorer_run_empty
    \/ SquashFSExplorer_run_interrupt
    \/ SquashFSExplorer_run_eof
    \/ ExitCommand_execute
    \/ SquashFSImage_init

Spec == Init /\ [][Next]_vars

(***************************************************************************)
(* The parser on a populated tree.  The parser's own directory reader      *)
(* leaves every children dict empty, so the trees below are the ones a     *)
(* caller builds by filling Inode.children; ls and cd then run on them.    *)
(***************************************************************************)

Entry(name, ref) == [name |-> name, ref |-> ref]

Node(type, number, name, children) ==
    [Inode(type, 493, 0, 0, 16909060, number) EXCEPT !.name = name, !.children = children]

FileNode(number, name, size, blocks, fragment) ==
    [Inode(FILE, 420, 0, 0, 16909060, number) EXCEPT
        !.name = name, !.size = size, !.blocks = blocks, !.fragment = fragment]

\* zlib streams of stored blocks: b"hi" in one block, b"hi" in two blocks,
\* and the single byte 0xff
StoredHi == <<120, 1, 1, 2, 0, 253, 255, 104, 105, 1, 59, 0, 210>>
StoredHiTwo == <<120, 1, 0, 1, 0, 254, 255, 104, 1, 1, 0, 254, 255, 105, 1, 59, 0, 210>>
StoredFF == <<120, 1, 1, 1, 0, 254, 255, 255, 1, 0, 1, 0>>

\* /a/b/c with a file f next to a, under the root inode the parser read
TreeDeep(root) ==
    [ref \in {"root", "a", "b", "c", "f"} |->
        CASE ref = "root" -> [root EXCEPT !.children =
                                  <<Entry(<<"a">>, "a"), Entry(<<"f">>, "f")>>]
          [] ref = "a"    -> Node(DIRECTORY, 2, <<"a">>, <<Entry(<<"b">>, "b")>>)
          [] ref = "b"    -> Node(DIRECTORY, 3, <<"b">>, <<Entry(<<"c">>, "c")>>)
          [] ref = "c"    -> Node(DIRECTORY, 4, <<"c">>, <<>>)
          [] ref = "f"    -> FileNode(5, <<"f">>, 3,
                                      <<DataBlock(StoredHiTwo, 2), DataBlock(StoredHi, 2)>>,
                                      None)]

\* A root that holds an empty directory a and the files
\*   f  one block holding its 2 bytes
\*   g  declared size 5, one block of 2 bytes
\*   s  one block without payload (a sparse block)
\*   t  2 bytes at offset 0 of fragment block 0, no data block
\*   u  3 bytes at offset 2 of fragment block 0, no data block
\*   w  one block holding a byte that is not text
TreeFlat(root) ==
    [ref \in {"root", "a", "f", "g", "s", "t", "u", "w"} |->
        CASE ref = "root" -> [root EXCEPT !.children =
                                  <<Entry(<<"f">>, "f"), Entry(<<"a">>, "a"),
                                    Entry(<<"g">>, "g"), Entry(<<"s">>, "s"),
                                    Entry(<<"t">>, "t"), Entry(<<"u">>, "u"),
                                    Entry(<<"w">>, "w")>>]
          [] ref = "a"    -> Node(DIRECTORY, 2, <<"a">>, <<>>)
          [] ref = "f"    -> FileNode(3, <<"f">>, 2, <<DataBlock(StoredHi, 2)>>, None)
          [] ref = "g"    -> FileNode(4, <<"g">>, 5, <<DataBlock(StoredHi, 2)>>, None)
          [] ref = "s"    -> FileNode(5, <<"s">>, 4096, <<DataBlock(<<>>, 4096)>>, None)
          [] ref = "t"    -> FileNode(6, <<"t">>, 2, <<>>, Fragment(0, 0, 2))
          [] ref = "u"    -> FileNode(7, <<"u">>, 3, <<>>, Fragment(0, 2, 3))
          [] ref = "w"    -> FileNode(8, <<"w">>, 1, <<DataBlock(StoredFF, 1)>>, None)]

\* The decompressed fragment blocks of the trees: files t and u share block 0,
\* t owning b"hi" at offset 0 and u owning b"abc" at offset 2.
FragmentBlocks == << <<104, 105, 97, 98, 99>> >>

\* The names given to cat.
FileNames == {<<"f">>, <<"g">>, <<"s">>, <<"t">>, <<"u">>, <<"w">>, <<"a">>, <<"z">>}

Trees(root) == {TreeDeep(root), TreeFlat(root)}

MountableImages ==
    { w \in WholeImages : SquashFSParser_init(w).exc = ""
                          /\ SquashFSParser_init(w).parser.superblock # None }

InitParser ==
    /\ image \in MountableImages
    /\ force = FALSE
    /\ pc = "loop"
    /\ exit_status = <<>>
    /\ superblock = unpack_squashfs_superblock(Slice(image, 0, 4096)).ret
    /\ raw_data = Slice(image, 0, 4096)
    /\ fs_parser = SquashFSParser_init(image).parser
    /\ heap \in Trees(SquashFSParser_init(image).inodes["root"])
    /\ out = [cmd |-> "none"]
    /\ sq = [exc |-> "not run"]
    /\ registry = <<>>
    /\ sys_modules = {}
    /\ f_pos = 0
    /\ calls = <<>>

NextParser ==
    \/ ListCommand_execute
    \/ \E args \in {<<>>} \cup {<<p>> : p \in Paths} : ChangeDirectoryCommand_execute(args)
    \/ \E args \in {<<>>} \cup {<<n>> : n \in FileNames} : CatCommand_execute(args)

SpecParser == InitParser /\ [][NextParser]_vars

(***************************************************************************)
(* The registry.  tool.py imports no module of the commands package, so    *)
(* under Spec the registry stays empty; here the modules are imported and  *)
(* classes are registered before the explorer is built, and the loop then  *)
(* looks its input up in the registry that results.                        *)
(***************************************************************************)

MaxRegistered == 2   \* a registration starts only while the registry holds fewer names
MaxImported == 1     \* a module is first imported only while sys.modules holds fewer

\* One well-formed gzip image and one file of three bytes.
RegistryImages ==
    { Header(f) \o InodeRecord(1, 16) :
        f \in {g \in Headers : Deviations(g) = 0 /\ g.id_count = 0} }
    \cup { w \in CutImages : Len(w) = 3 }

Modules == { CommandModules[i].module : i \in 1..Len(CommandModules) }

\* The class statements tried besides those of the package's modules.
RegisterInputs ==
    { <<TRUE, <<>>, "MountCommand">>,
      <<FALSE, <<>>, "ChangeDirectoryCommand">>,
      <<FALSE, <<Str(<<"q">>)>>, "ExitCommand">>,
      <<FALSE, <<Str(<<"h", "e", "x">>)>>, "MountCommand">>,
      <<FALSE, <<List(<< <<"e", "x", "i", "t">>, <<"q", "u", "i", "t">> >>)>>, "ExitCommand">>,
      <<FALSE, <<Str(<<"e", "x", "i", "t">>), Str(<<"q", "u", "i", "t">>)>>, "ExitCommand">> }

\* The first words of the input lines.
Words == CommandNames \cup { <<"H", "E", "X">>, <<"q">>, <<"c", "h", "a", "n", "g", "e", "_",
                               "d", "i", "r", "e", "c", "t", "o", "r", "y">> }

InitRegistry ==
    /\ image \in RegistryImages
    /\ force = TRUE
    /\ pc = "start"
    /\ exit_status = <<>>
    /\ superblock = None
    /\ raw_data = <<>>
    /\ fs_parser = None
    /\ heap = <<>>
    /\ out = [cmd |-> "none"]
    /\ sq = [exc |-> "not run"]
    /\ registry = <<>>
    /\ sys_modules = {}
    /\ f_pos = 0
    /\ calls = <<>>

NextRegistry ==
    \/ \E m \in Modules :
          /\ Len(registry) < MaxRegistered
          /\ (m \in sys_modules \/ Cardinality(sys_modules) < MaxImported)
          /\ ImportCommandModule(m)
    \/ \E i \in RegisterInputs :
          Len(registry) < MaxRegistered /\ RegisterClass(i[1], i[2], i[3])
    \/ SquashFSExplorer_init
    \/ \E word \in Words, args \in {<<>>, <<str(3)>>} : SquashFSExplorer_run(word, args)

SpecRegistry == InitRegistry /\ [][NextRegistry]_vars

(***************************************************************************)
(* sqpeek.py: the methods of SquashFSImage.  They run on an image object   *)
(* whose attributes inode_tbl_start, dir_tbl_start and root_inode_ref are  *)
(* given directly; sq holds the attributes, f_pos the position of self.f.  *)
(***************************************************************************)

DIR_TYPE == 1
FILE_TYPE == 8

\* The characters of the ASCII codes 32 to 95 and 97 to 126, in order.
PrintableChars ==
    <<" ", "!", "\"", "#", "$", "%", "&", "'", "(", ")", "*", "+", ",", "-", ".", "/",
      "0", "1", "2", "3", "4", "5", "6", "7", "8", "9", ":", ";", "<", "=", ">", "?",
      "@", "A", "B", "C", "D", "E", "F", "G", "H", "I", "J", "K", "L", "M", "N", "O",
      "P", "Q", "R", "S", "T", "U", "V", "W", "X", "Y", "Z", "[", "\\", "]", "^", "_",
      "a", "b", "c", "d", "e", "f", "g", "h", "i", "j", "k", "l", "m", "n", "o",
      "p", "q", "r", "s", "t", "u", "v", "w", "x", "y", "z", "{", "|", "}", "~">>

PrintableCodes == (32..95) \cup (97..126)

chr(b) == IF b < 96 THEN PrintableChars[b - 31] ELSE PrintableChars[b - 32]

\* bytes.decode(): the text of a byte string, decided for these characters
\* and for a string whose first non-ASCII byte cannot start a UTF-8 sequence.
decode(bs) ==
    CASE \A i \in 1..Len(bs) : bs[i] \in PrintableCodes
           -> [exc |-> "", ret |-> [i \in 1..Len(bs) |-> chr(bs[i])]]
      [] (\E i \in 1..Len(bs) : bs[i] >= 128)
         /\ (\A i \in 1..Len(bs) : bs[i] \in PrintableCodes \cup (128..255))
         /\ bs[FirstNonAscii(bs)] \in (128..193) \cup (245..255)
           -> [exc |-> "UnicodeDecodeError", ret |-> <<>>]

\* str.encode() of text in these characters
encode(s) == [i \in 1..Len(s) |-> CHOOSE b \in PrintableCodes : chr(b) = s[i]]

\* self.<name> of the image object o
Attr(o, name) == o.attrs[CHOOSE i \in 1..Len(o.attrs) : o.attrs[i][1] = name][2]

\* The element of a set of one element.  { e : x \in {v} } is e with x
\* standing for the value of v, computed once.
Only(S) == CHOOSE x \in S : TRUE

\* _block_at(pos) on the file img: ret is the value returned, f the position
\* of the file object afterwards.  A read at or past the end of the file
\* returns fewer bytes than asked, and int.from_bytes of b'' is 0.
block_at(img, pos) ==
    Only({ LET hdr    == FromLE(h)
               size   == hdr % 32768
               stored == (hdr \div 32768) % 2 = 0
           IN  Only({ IF stored
                      THEN [exc |-> "", ret |-> data, f |-> pos + Len(h) + Len(data)]
                      ELSE [exc |-> zlib_decompress(data).exc,
                            ret |-> zlib_decompress(data).ret,
                            f   |-> pos + Len(h) + Len(data)] :
                      data \in {FileRead(img, pos + Len(h), size)} }) :
           h \in {FileRead(img, pos, 2)} })

\* _inode_blob(inode_ref): pos is the position the block is read at, off
\* the index the returned bytes start at inside the block.
inode_blob(img, o, inode_ref) ==
    LET blk_off   == inode_ref - (inode_ref % 4096)
        inode_off == inode_ref % 4096
        pos       == Attr(o, "inode_tbl_start") + blk_off
    IN  Only({ [exc |-> block.exc,
                ret |-> IF block.exc # "" THEN <<>>
                        ELSE Slice(block.ret, inode_off, Len(block.ret)),
                f   |-> block.f, pos |-> pos, off |-> inode_off] :
               block \in {block_at(img, pos)} })

\* _block_at(pos) as one command
SquashFSImage_block_at(pos) ==
    /\ pc = "sqpeek"
    /\ calls = <<>>
    /\ LET r == block_at(image, pos)
       IN  /\ out' = [cmd |-> "_block_at", pos |-> pos, exc |-> r.exc, ret |-> r.ret]
           /\ f_pos' = r.f
    /\ UNCHANGED <<image, force, pc, exit_status, superblock, raw_data, fs_parser, heap, sq,
                   registry, calls, sys_modules>>

\* _inode_blob(inode_ref) as one command
SquashFSImage_inode_blob(inode_ref) ==
    /\ pc = "sqpeek"
    /\ calls = <<>>
    /\ LET r == inode_blob(image, sq, inode_ref)
       IN  /\ out' = [cmd |-> "_inode_blob", inode_ref |-> inode_ref, exc |-> r.exc,
                      ret |-> r.ret, pos |-> r.pos, off |-> r.off]
           /\ f_pos' = r.f
    /\ UNCHANGED <<image, force, pc, exit_status, superblock, raw_data, fs_parser, heap, sq,
                   registry, calls, sys_modules>>

\* s.rstrip(c) and s.strip(c) for a one-character c
RECURSIVE rstrip(_, _)
rstrip(s, c) == IF s # <<>> /\ s[Len(s)] = c THEN rstrip(Front(s), c) ELSE s

strip(s, c) == rstrip(lstrip(s, c), c)

\* "<HBxI"
DIRENT_FMT == <<"H", "B", "x", "I">>

\* The directory entry decoded at index p of the block meta: name length,
\* type and reference, the decoded name, and the index of the next entry.
DirEntry(meta, p) ==
    Only({ IF u.exc # ""
           THEN [exc |-> "struct.error", name |-> <<>>, itype |-> 0, child_ref |-> 0,
                 next |-> p]
           ELSE LET nlen == u.vals[1]
                IN  Only({ [exc       |-> name.exc,
                            name      |-> name.ret,
                            itype     |-> u.vals[2],
                            child_ref |-> u.vals[3],
                            next      |-> p + 8 + nlen + ((4 - (nlen % 4)) % 4)] :
                           name \in {decode(Slice(meta, p + 8, p + 8 + nlen))} }) :
           u \in {struct_unpack_from(DIRENT_FMT, Slice(meta, p, Len(meta)))} })

\* What _find_child and _recurse_dir do with an inode before their loop:
\* the inode's bytes, its type from raw[16], the "<IIII" fields at byte 24
\* and the directory block.  isdir is FALSE for an inode of another type.
OpenDir(img, o, inode_ref) ==
    LET fail(e, pos) == [exc |-> e, isdir |-> FALSE, meta |-> <<>>, offset |-> 0, count |-> 0,
                         f |-> pos]
    IN  Only({ LET raw == blob.ret
               IN  IF blob.exc # "" THEN fail(blob.exc, blob.f)
                   ELSE IF Len(raw) <= 16 THEN fail("IndexError", blob.f)
                   ELSE IF raw[17] % 16 # DIR_TYPE THEN fail("", blob.f)
                   ELSE IF Len(raw) < 40 THEN fail("struct.error", blob.f)
                   ELSE Only({ Only({ IF meta.exc # "" THEN fail(meta.exc, meta.f)
                                      ELSE [exc |-> "", isdir |-> TRUE, meta |-> meta.ret,
                                            offset |-> FromLE(Slice(raw, 32, 36)),
                                            count  |-> FromLE(Slice(raw, 36, 40)),
                                            f      |-> meta.f] :
                                      meta \in {block_at(img, Attr(o, "dir_tbl_start")
                                                                + start_block)} }) :
                               start_block \in {FromLE(Slice(raw, 24, 28))} }) :
               blob \in {inode_blob(img, o, inode_ref)} })

\* The loop of _find_child from index p on, with n entries to go.
RECURSIVE FindLoop(_, _, _, _)
FindLoop(meta, p, n, target) ==
    IF n = 0 THEN [exc |-> "", found |-> FALSE, child_ref |-> 0]
    ELSE Only({ IF e.exc # "" THEN [exc |-> e.exc, found |-> FALSE, child_ref |-> 0]
                ELSE IF e.name = target
                THEN [exc |-> "", found |-> TRUE, child_ref |-> e.child_ref]
                ELSE FindLoop(meta, e.next, n - 1, target) :
                e \in {DirEntry(meta, p)} })

\* _find_child(dir_inode_ref, target): found is FALSE where the method
\* returns None.
find_child(img, o, dir_inode_ref, target) ==
    Only({ IF d.exc # "" THEN [exc |-> d.exc, found |-> FALSE, child_ref |-> 0, f |-> d.f]
           ELSE IF ~d.isdir THEN [exc |-> "", found |-> FALSE, child_ref |-> 0, f |-> d.f]
           ELSE Only({ [exc |-> r.exc, found |-> r.found, child_ref |-> r.child_ref,
                        f |-> d.f] :
                       r \in {FindLoop(d.meta, d.offset, d.count, target)} }) :
           d \in {OpenDir(img, o, dir_inode_ref)} })

\* sqpeek.py sets no bound on the depth of _walk or _recurse_dir and keeps
\* no record of the directories it is listing; the only bound is the
\* interpreter's recursion limit, of which this is what is left beneath ls
\* for _walk, _recurse_dir and the methods they call.  A call of _walk that
\* looks a part up goes three calls deeper (_find_child, _inode_blob,
\* _block_at), a call of _recurse_dir two (_inode_blob, _block_at); the
\* call that would exceed the limit makes the interpreter abort the command
\* with an uncaught RecursionError before the file is touched.
RecursionLimit == 6

\* The frame of a call _walk(parts, inode_ref)
WalkFrame(parts, inode_ref) == [fn |-> "_walk", parts |-> parts, inode_ref |-> inode_ref]

\* The frame of a call _recurse_dir(inode_ref, base): entered is FALSE until
\* the inode has been read, then meta, p and left are the directory block,
\* the index of the next entry and the number of entries the loop has to go.
RecurseFrame(inode_ref, base) ==
    [fn |-> "_recurse_dir", inode_ref |-> inode_ref, base |-> base, entered |-> FALSE,
     meta |-> <<>>, p |-> 0, left |-> 0]

Top == calls[Len(calls)]

\* An exception leaves every call in progress and ends the command.
Raise(e) ==
    /\ calls' = <<>>
    /\ out' = [out EXCEPT !.exc = e, !.done = TRUE]

\* The call on top returns to its caller.
Return(lines) ==
    /\ calls' = Front(calls)
    /\ out' = [out EXCEPT !.lines = lines, !.done = (Len(calls) = 1)]

\* The ls command of main with the argument dir_arg: the arguments of
\* ls(path_parts, prefix) as main computes them, then ls up to its first
\* call.  path_parts is None for "/".
SquashFSImage_ls(dir_arg) ==
    /\ pc = "sqpeek"
    /\ calls = <<>>
    /\ LET parts  == split(strip(dir_arg, "/"), "/")
           prefix == IF dir_arg = <<"/">> THEN <<"/">> ELSE rstrip(dir_arg, "/") \o <<"/">>
           root   == dir_arg = <<"/">> \/ parts = <<>> \/ (Len(parts) = 1 /\ parts[1] = <<>>)
       IN  /\ out' = [cmd |-> "sqpeek ls", dir_arg |-> dir_arg, prefix |-> prefix, lines |-> <<>>,
                      exc |-> "", done |-> FALSE]
           /\ calls' = IF root THEN <<RecurseFrame(Attr(sq, "root_inode_ref"), prefix)>>
                       ELSE <<WalkFrame(parts, Attr(sq, "root_inode_ref"))>>
    /\ UNCHANGED <<image, force, pc, exit_status, superblock, raw_data, fs_parser, heap, sq,
                   registry, f_pos, sys_modules>>

\* One call of _walk: it returns inode_ref when no part is left, and its
\* callers return the same value up to ls, which calls _recurse_dir; else
\* it looks the first part up, which fails at the recursion limit, and
\* calls itself on the rest.
SquashFSImage_walk ==
    /\ calls # <<>>
    /\ Top.fn = "_walk"
    /\ IF Top.parts = <<>>
       THEN /\ calls' = <<RecurseFrame(Top.inode_ref, out.prefix)>>
            /\ UNCHANGED <<out, f_pos>>
       ELSE IF Len(calls) + 3 > RecursionLimit
       THEN /\ Raise("RecursionError")
            /\ UNCHANGED f_pos
       ELSE \E child \in {find_child(image, sq, Top.inode_ref, Head(Top.parts))} :
                /\ f_pos' = child.f
                /\ IF child.exc # "" THEN Raise(child.exc)
                   ELSE IF ~child.found THEN Raise("FileNotFoundError")
                   ELSE /\ calls' = Append(calls, WalkFrame(Tail(Top.parts), child.child_ref))
                        /\ UNCHANGED out
    /\ UNCHANGED <<image, force, pc, exit_status, superblock, raw_data, fs_parser, heap, sq,
                   registry, sys_modules>>

\* _recurse_dir from its start to its loop: reading the inode fails at the
\* recursion limit; an inode that is no directory is printed and the call
\* returns.
SquashFSImage_recurse_dir_enter ==
    /\ calls # <<>>
    /\ Top.fn = "_recurse_dir"
    /\ ~Top.entered
    /\ IF Len(calls) + 2 > RecursionLimit
       THEN /\ Raise("RecursionError")
            /\ UNCHANGED f_pos
       ELSE \E d \in {OpenDir(image, sq, Top.inode_ref)} :
           /\ f_pos' = d.f
           /\ IF d.exc # "" THEN Raise(d.exc)
              ELSE IF ~d.isdir THEN Return(Append(out.lines, rstrip(Top.base, "/")))
              ELSE /\ calls' = [calls EXCEPT ![Len(calls)] =
                                   [Top EXCEPT !.entered = TRUE, !.meta = d.meta,
                                               !.p = d.offset, !.left = d.count]]
                   /\ UNCHANGED out
    /\ UNCHANGED <<image, force, pc, exit_status, superblock, raw_data, fs_parser, heap, sq,
                   registry, sys_modules>>

\* One iteration of the loop of _recurse_dir, up to the recursive call
\* when the entry is a directory; the call returns when no entry is left.
SquashFSImage_recurse_dir_step ==
    /\ calls # <<>>
    /\ Top.fn = "_recurse_dir"
    /\ Top.entered
    /\ IF Top.left = 0 THEN Return(out.lines)
       ELSE \E e \in {DirEntry(Top.meta, Top.p)} :
            LET new_base == Top.base \o e.name \o
                            (IF e.itype = DIR_TYPE THEN <<"/">> ELSE <<>>)
                advanced == [Top EXCEPT !.p = e.next, !.left = Top.left - 1]
            IN  IF e.exc # "" THEN Raise(e.exc)
                ELSE IF e.itype # DIR_TYPE
                THEN /\ calls' = [calls EXCEPT ![Len(calls)] = advanced]
                     /\ out' = [out EXCEPT !.lines = Append(out.lines, new_base)]
                ELSE /\ calls' = Append([calls EXCEPT ![Len(calls)] = advanced],
                                        RecurseFrame(e.child_ref, new_base))
                     /\ UNCHANGED out
    /\ UNCHANGED <<image, force, pc, exit_status, superblock, raw_data, fs_parser, heap, sq,
                   registry, f_pos, sys_modules>>

(***************************************************************************)
(* The single-threaded reader: an image object on a small file of metadata *)
(* blocks takes _block_at, _inode_blob and ls commands.                    *)
(***************************************************************************)

\* An inode of 40 bytes: the type in byte 16 and the "<IIII" fields
\* start_block, (unused), offset and count at byte 24.
PeekInode(type, start_block, offset, count) ==
    Zeros(16) \o <<type>> \o Zeros(7) \o
    ToLE(start_block, 4) \o ToLE(0, 4) \o ToLE(offset, 4) \o ToLE(count, 4)

\* A directory entry: "<HBxI" of name length, type and reference, the name,
\* and zero bytes up to a multiple of four.
PeekEntry(name, type, child_ref) ==
    ToLE(Len(name), 2) \o <<type, 0>> \o ToLE(child_ref, 4) \o encode(name) \o
    Zeros((4 - (Len(name) % 4)) % 4)

\* A metadata block: the 2-byte header (length, bit 15 as given), then the
\* payload.
MetaBlock(payload, bit15) == ToLE(Len(payload) + 32768 * bit15, 2) \o payload

\* zlib.compress(d, 0): one stored block and the Adler-32 trailer.
ZlibStored(d) ==
    <<120, 1, 1>> \o ToLE(Len(d), 2) \o ToLE(65535 - Len(d), 2) \o d \o Adler32Bytes(d)

PeekImage(inodes, dirs, root_inode_ref) ==
    [data  |-> inodes \o dirs,
     attrs |-> << <<"inode_tbl_start", 0>>, <<"dir_tbl_start", Len(inodes)>>,
                  <<"root_inode_ref", root_inode_ref>> >>]

\* /f and /a, where a is the root directory itself.
SelfEntries == PeekEntry(<<"f">>, FILE_TYPE, 40) \o PeekEntry(<<"a">>, DIR_TYPE, 0)
SelfInodes == PeekInode(DIR_TYPE, 0, 0, 2) \o PeekInode(FILE_TYPE, 0, 0, 0)

\* /d/u, where u is the root directory.
UpEntries == PeekEntry(<<"d">>, DIR_TYPE, 40) \o PeekEntry(<<"u">>, DIR_TYPE, 0)
UpInodes == PeekInode(DIR_TYPE, 0, 0, 1) \o PeekInode(DIR_TYPE, 0, 12, 1)

\* /d/g and /f
TreeEntries ==
    PeekEntry(<<"d">>, DIR_TYPE, 40) \o PeekEntry(<<"f">>, FILE_TYPE, 80) \o
    PeekEntry(<<"g">>, FILE_TYPE, 80)
TreeInodes ==
    PeekInode(DIR_TYPE, 0, 0, 2) \o PeekInode(DIR_TYPE, 0, 24, 1) \o
    PeekInode(FILE_TYPE, 0, 0, 0)

\* /d/g with the inode of d in a second inode block, which starts 42 bytes
\* into the inode table.
SplitEntries == PeekEntry(<<"d">>, DIR_TYPE, 42 * 65536) \o PeekEntry(<<"g">>, FILE_TYPE, 0)
SplitInodes ==
    MetaBlock(PeekInode(DIR_TYPE, 0, 0, 1), 0) \o MetaBlock(PeekInode(DIR_TYPE, 0, 12, 1), 0)

PeekImages ==
    { PeekImage(MetaBlock(SelfInodes, 0), MetaBlock(SelfEntries, 0), 0),
      PeekImage(MetaBlock(SelfInodes, 0), MetaBlock(ZlibStored(SelfEntries), 1), 0),
      PeekImage(MetaBlock(UpInodes, 0), MetaBlock(UpEntries, 0), 0),
      PeekImage(MetaBlock(TreeInodes, 0), MetaBlock(TreeEntries, 0), 0),
      PeekImage(MetaBlock(TreeInodes, 0), MetaBlock(TreeEntries, 1), 0),
      PeekImage(SplitInodes, MetaBlock(SplitEntries, 0), 0),
      PeekImage(MetaBlock(<<104, 105>>, 0), MetaBlock(StoredHi, 0), 0),
      PeekImage(MetaBlock(<<104, 105>>, 1), MetaBlock(StoredHi, 1), 0),
      PeekImage(<<>>, <<5>>, 0) }

\* The arguments given to the ls command, to _block_at and to _inode_blob.
DirArgs ==
    { <<"/">>, <<>>, <<"d">>, <<"/", "d", "/">>, <<"a", "/", "a">>, <<"z">>,
      <<"f", "/", "x">>, <<"d", "/", "g">>, <<"a", "/", "a", "/", "a", "/", "a", "/", "a">> }

Positions == {0, 1, 4, 17}

InodeRefs == {0, 40, 4096, 65536, 65576, 42 * 65536}

InitPeek ==
    /\ \E i \in PeekImages :
          /\ image = i.data
          /\ sq = [exc |-> "", msg |-> "", attrs |-> i.attrs]
    /\ force = FALSE
    /\ pc = "sqpeek"
    /\ exit_status = <<>>
    /\ superblock = None
    /\ raw_data = <<>>
    /\ fs_parser = None
    /\ heap = <<>>
    /\ out = [cmd |-> "none"]
    /\ registry = <<>>
    /\ sys_modules = {}
    /\ f_pos = 0
    /\ calls = <<>>

NextPeek ==
    \/ \E pos \in Positions \cup {Attr(sq, "dir_tbl_start")} : SquashFSImage_block_at(pos)
    \/ \E inode_ref \in InodeRefs : SquashFSImage_inode_blob(inode_ref)
    \/ \E dir_arg \in DirArgs : SquashFSImage_ls(dir_arg)
    \/ SquashFSImage_walk
    \/ SquashFSImage_recurse_dir_enter
    \/ SquashFSImage_recurse_dir_step

SpecPeek == InitPeek /\ [][NextPeek]_vars

(***************************************************************************)
(* Two threads that call _block_at on one image object.  The object has no *)
(* lock: its file object is shared, and a thread may be suspended between  *)
(* any two of the calls seek, read(2) and read(size) of the method; each   *)
(* of these calls on the file object is atomic.  calls holds one frame per *)
(* thread.                                                                 *)
(***************************************************************************)

Threads == {1, 2}

\* The frame of a thread: at is the statement the thread is to run next in
\* _block_at(pos), "idle" before a call and "done" after its return; hdr is
\* the local variable hdr, exc and ret the outcome of the call.
BlockFrame(pos, at) ==
    [fn |-> "_block_at", pos |-> pos, at |-> at, hdr |-> 0, exc |-> "", ret |-> <<>>]

\* A thread calls _block_at(pos).
Thread_block_at_call(t, pos) ==
    /\ pc = "threads"
    /\ calls[t].at \in {"idle", "done"}
    /\ calls' = [calls EXCEPT ![t] = BlockFrame(pos, "seek")]
    /\ UNCHANGED <<image, force, pc, exit_status, superblock, raw_data, fs_parser, heap, out,
                   sq, registry, f_pos, sys_modules>>

\* self.f.seek(pos)
Thread_block_at_seek(t) ==
    /\ pc = "threads"
    /\ calls[t].at = "seek"
    /\ f_pos' = calls[t].pos
    /\ calls' = [calls EXCEPT ![t].at = "read_hdr"]
    /\ UNCHANGED <<image, force, pc, exit_status, superblock, raw_data, fs_parser, heap, out,
                   sq, registry, sys_modules>>

\* hdr = int.from_bytes(self.f.read(2), "little")
Thread_block_at_read_hdr(t) ==
    /\ pc = "threads"
    /\ calls[t].at = "read_hdr"
    /\ LET h == FileRead(image, f_pos, 2)
       IN  /\ f_pos' = f_pos + Len(h)
           /\ calls' = [calls EXCEPT ![t].at = "read_data", ![t].hdr = FromLE(h)]
    /\ UNCHANGED <<image, force, pc, exit_status, superblock, raw_data, fs_parser, heap, out,
                   sq, registry, sys_modules>>

\* data = self.f.read(size), and the return statement
Thread_block_at_read_data(t) ==
    /\ pc = "threads"
    /\ calls[t].at = "read_data"
    /\ LET hdr    == calls[t].hdr
           size   == hdr % 32768
           stored == (hdr \div 32768) % 2 = 0
           data   == FileRead(image, f_pos, size)
           exc    == IF stored THEN "" ELSE zlib_decompress(data).exc
           ret    == IF stored THEN data ELSE zlib_decompress(data).ret
       IN  /\ f_pos' = f_pos + Len(data)
           /\ calls' = [calls EXCEPT ![t].at = "done", ![t].exc = exc, ![t].ret = ret]
           /\ out' = [cmd |-> "thread _block_at", thread |-> t, pos |-> calls[t].pos,
                      exc |-> exc, ret |-> ret]
    /\ UNCHANGED <<image, force, pc, exit_status, superblock, raw_data, fs_parser, heap, sq,
                   registry, sys_modules>>

\* The images the threads read: two blocks, at the positions 0 and 4.
ThreadImages ==
    { i \in PeekImages : Attr(i, "dir_tbl_start") = 4 }

InitThreads ==
    /\ \E i \in ThreadImages :
          /\ image = i.data
          /\ sq = [exc |-> "", msg |-> "", attrs |-> i.attrs]
    /\ force = FALSE
    /\ pc = "threads"
    /\ exit_status = <<>>
    /\ superblock = None
    /\ raw_data = <<>>
    /\ fs_parser = None
    /\ heap = <<>>
    /\ out = [cmd |-> "none"]
    /\ registry = <<>>
    /\ sys_modules = {}
    /\ f_pos = 0
    /\ calls = [t \in Threads |-> BlockFrame(0, "idle")]

NextThreads ==
    \E t \in Threads :
        \/ \E pos \in {0, Attr(sq, "dir_tbl_start")} : Thread_block_at_call(t, pos)
        \/ Thread_block_at_seek(t)
        \/ Thread_block_at_read_hdr(t)
        \/ Thread_block_at_read_data(t)

SpecThreads == InitThreads /\ [][NextThreads]_vars

(***************************************************************************)
(* Properties                                                              *)
(***************************************************************************)

\* The little-endian integer in the w bytes of img that start at offset off.
RECURSIVE LEAt(_, _, _)
LEAt(img, off, w) == IF w = 0 THEN 0 ELSE img[off + 1] + 256 * LEAt(img, off + 1, w - 1)

SuperblockFieldNames ==
    {"magic", "inode_count", "modification_time", "block_size", "fragment_entry_count",
     "compression_id", "block_log", "flags", "id_count", "version_major", "version_minor",
     "root_inode_ref", "bytes_used", "id_table_start", "xattr_id_table_start",
     "inode_table_start", "directory_table_start", "fragment_table_start",
     "export_table_start"}

BadMagicImage == Len(image) >= 96 /\ LEAt(image, 0, 4) # 1936814952

GoodMagicImage == Len(image) >= 96 /\ LEAt(image, 0, 4) = 1936814952

\* C1: for a header of at least 96 bytes whose first four bytes are not the
\* magic, parsing fails: the explorer and the parser hold no superblock, the
\* reader reports the invalid magic, and sqpeek's constructor raises
\* ValueError instead of returning an image object.
C1_MagicRejected ==
    BadMagicImage =>
        /\ superblock = None
        /\ (fs_parser # None => fs_parser.superblock = None)
        /\ (out.cmd = "open"
               => \E i \in 1..Len(out.lines) : out.lines[i] = "Invalid magic number")
        /\ (pc = "sqpeek" => sq.exc = "ValueError")

C1_Witness ==
    BadMagicImage /\ pc = "loop" /\ out.cmd = "mount" /\ fs_parser # None

\* C2: a header with valid magic in which (1 << block_log) != block_size is
\* rejected: no superblock with mismatching block_log and block_size is ever
\* held by the explorer or the parser.
C2_BlockLogRejected ==
    /\ (superblock # None => 2 ^ superblock.block_log = superblock.block_size)
    /\ (fs_parser # None /\ fs_parser.superblock # None
           => 2 ^ fs_parser.superblock.block_log = fs_parser.superblock.block_size)

\* C3: a superblock is returned only for version 4.x headers.
C3_VersionRejected ==
    /\ (superblock # None => superblock.version_major = 4)
    /\ (fs_parser # None /\ fs_parser.superblock # None
           => fs_parser.superblock.version_major = 4)

\* C4: the superblock reader returns None or a superblock with all 19
\* fields and lets no exception escape, for inputs of every length.
C4_NoneOrComplete ==
    /\ pc # "crashed"
    /\ (out.cmd = "mount" => out.exc # "struct.error" \/ GoodMagicImage)
    /\ (superblock = None \/ DOMAIN superblock = SuperblockFieldNames)
    /\ (fs_parser # None =>
           fs_parser.superblock = None \/ DOMAIN fs_parser.superblock = SuperblockFieldNames)

C4_Witness ==
    pc = "loop" /\ Len(image) < 4 /\ out.cmd = "mount" /\ fs_parser # None
    /\ fs_parser.superblock = None /\ superblock = None

\* The 19 fields of sb are the little-endian integers of img at the fixed
\* layout: five 32-bit fields, six 16-bit fields, eight 64-bit fields.
FieldsAtLayout(sb, img) ==
    /\ sb.magic                 = LEAt(img, 0, 4)
    /\ sb.inode_count           = LEAt(img, 4, 4)
    /\ sb.modification_time     = LEAt(img, 8, 4)
    /\ sb.block_size            = LEAt(img, 12, 4)
    /\ sb.fragment_entry_count  = LEAt(img, 16, 4)
    /\ sb.compression_id        = LEAt(img, 20, 2)
    /\ sb.block_log             = LEAt(img, 22, 2)
    /\ sb.flags                 = LEAt(img, 24, 2)
    /\ sb.id_count              = LEAt(img, 26, 2)
    /\ sb.version_major         = LEAt(img, 28, 2)
    /\ sb.version_minor         = LEAt(img, 30, 2)
    /\ sb.root_inode_ref        = LEAt(img, 32, 8)
    /\ sb.bytes_used            = LEAt(img, 40, 8)
    /\ sb.id_table_start        = LEAt(img, 48, 8)
    /\ sb.xattr_id_table_start  = LEAt(img, 56, 8)
    /\ sb.inode_table_start     = LEAt(img, 64, 8)
    /\ sb.directory_table_start = LEAt(img, 72, 8)
    /\ sb.fragment_table_start  = LEAt(img, 80, 8)
    /\ sb.export_table_start    = LEAt(img, 88, 8)

\* C5: for an input of at least 96 bytes with valid magic a superblock is
\* returned, and each of its 19 fields equals the little-endian integer at
\* its place in bytes 0..95.
C5_FieldsAtLayout ==
    /\ (GoodMagicImage /\ pc \in {"loop", "exited"} =>
           superblock # None /\ FieldsAtLayout(superblock, image))
    /\ (GoodMagicImage /\ fs_parser # None =>
           fs_parser.superblock # None /\ FieldsAtLayout(fs_parser.superblock, image))

C5_Witness ==
    Len(image) = 96 /\ pc = "loop" /\ superblock # None /\ superblock.export_table_start > 0

\* C6: when the superblock cannot be parsed, an explorer built with force
\* holds no superblock and the raw header bytes and takes commands; without
\* force the process exits with status 1 and no command ever runs.
C6_ForceOrExit ==
    (~GoodMagicImage /\ pc \notin {"start", "sqpeek"}) =>
        IF force
        THEN /\ superblock = None
             /\ raw_data = Slice(image, 0, 4096)
             /\ (pc = "loop" \/ (pc = "exited" /\ out.cmd = "exit"))
        ELSE /\ pc = "exited"
             /\ exit_status = <<1>>
             /\ out.cmd = "open"
             /\ fs_parser = None

C6_Witness ==
    force /\ Len(image) < 4 /\ pc = "loop" /\ superblock = None /\ out.cmd = "hex"

\* The number of bytes a hex or raw command was asked for.
Requested(o) == IF o.args # <<>> /\ isdigit(o.args[1]) THEN int(o.args[1]) ELSE 64

DumpStep(o) == IF o.cmd = "hex" THEN 16 ELSE 8

\* The dump o shows exactly the first n bytes of img, in order.
ShowsFirst(o, n, img) ==
    /\ Len(o.lines) = (n + DumpStep(o) - 1) \div DumpStep(o)
    /\ \A k \in 1..Len(o.lines) :
          Len(o.lines[k]) = IF k < Len(o.lines) THEN DumpStep(o)
                            ELSE n - DumpStep(o) * (Len(o.lines) - 1)
    /\ \A j \in 0..(n - 1) :
          o.lines[(j \div DumpStep(o)) + 1][(j % DumpStep(o)) + 1] = img[j + 1]

\* C7 as stated: for every n and every image of length L >= n the hex and
\* raw commands show exactly the first n bytes of the image.
C7_FirstNBytes ==
    (out.cmd \in {"hex", "raw"} /\ Len(image) >= Requested(out))
        => ShowsFirst(out, Requested(out), image)

\* C7 amended: for every n <= 4096 and every image of length L >= n the hex
\* and raw commands show exactly the first n bytes of the image, whether or
\* not the superblock was parsed; beyond 4096 only the first 4096 are shown.
C7_FirstNBytesWithinWindow ==
    /\ (out.cmd \in {"hex", "raw"} /\ Len(image) >= Requested(out) /\ Requested(out) <= 4096)
           => ShowsFirst(out, Requested(out), image)
    /\ (out.cmd \in {"hex", "raw"} /\ Len(image) >= Requested(out) /\ Requested(out) > 4096)
           => ShowsFirst(out, 4096, image)

C7_Witness ==
    out.cmd = "raw" /\ Requested(out) = 4096 /\ Len(image) >= 4096 /\ superblock = None

\* C8: mounting an image that has a valid superblock, id_count ids at
\* id_table_start and a root inode record at inode_table_start completes
\* without error and leaves a parser whose root inode is named "/" and is
\* the current directory.
C8_MountSucceeds ==
    (/\ out.cmd = "mount"
     /\ GoodMagicImage
     /\ Len(image) >= LEAt(image, 48, 8) + 4 * LEAt(image, 26, 2)
     /\ Len(image) >= LEAt(image, 64, 8) + 16)
        => /\ out.exc = ""
           /\ fs_parser # None
           /\ fs_parser.root_inode # "None"
           /\ heap[fs_parser.root_inode].name = <<"/">>
           /\ fs_parser.current_directory = fs_parser.root_inode

\* The non-empty components of a path.
Components(path) == SelectSeq(split(path, "/"), LAMBDA c : c # <<>>)

Mounted == fs_parser # None /\ fs_parser.superblock # None

\* C9: two paths with the same non-empty components resolve alike: the
\* same success or failure and the same inode.
C9_SlashesIgnored ==
    Mounted =>
        \A p, q \in Paths :
            Components(p) = Components(q)
                => change_directory(fs_parser, heap, p) = change_directory(fs_parser, heap, q)

\* In the current directory the first component of path names an entry that
\* is not a directory, and more components follow it.
ThroughNonDirectory(path) ==
    /\ Len(Components(path)) > 1
    /\ HasChild(heap[fs_parser.current_directory], Components(path)[1])
    /\ heap[Child(heap[fs_parser.current_directory], Components(path)[1])].inode_type # DIRECTORY

ReadsFile ==
    /\ Mounted
    /\ out.cmd = "cat"
    /\ out.args # <<>>
    /\ fs_parser.current_directory # "None"
    /\ HasChild(heap[fs_parser.current_directory], out.args[1])
    /\ heap[Child(heap[fs_parser.current_directory], out.args[1])].inode_type = FILE

\* The file inode that command read.
CatFile == heap[Child(heap[fs_parser.current_directory], out.args[1])]

ZstdImage == GoodMagicImage /\ LEAt(image, 20, 2) = 6

\* C14: for an image that declares ZSTD the superblock parses and every way
\* of opening the image succeeds (the explorer, the parser of a mount whose
\* id table and root inode are in place, sqpeek's image object); the codec
\* fails only when a block is decompressed.
C14_CodecCheckedLazily ==
    ZstdImage =>
        /\ (pc \in {"loop", "exited"} =>
               superblock # None /\ superblock.compression_id = ZSTD)
        /\ (out.cmd = "mount" /\ Len(image) = LEAt(image, 64, 8) + 16 =>
               out.exc = "" /\ fs_parser # None /\ fs_parser.superblock # None)
        /\ (Mounted => decompress_block(fs_parser, StoredHi, 2).exc = "NotImplementedError")
        /\ (pc = "sqpeek" => sq.exc = "")

\* The compression identifiers without a decompress handler.
Unhandled(c) == c \notin {GZIP, LZMA, XZ}

Listing(parser, inodes, d) ==
    list_directory([parser EXCEPT !.current_directory = d], inodes)

\* C16: no operation changes what listing a directory inode returns, and a
\* listing returns the entries of the inode it lists in their order: two
\* listings of one inode agree whatever listings, path resolutions and file
\* reads lie between them.
C16_ListingRestartable ==
    [][/\ \A d \in DOMAIN heap :
             Listing(fs_parser', heap', d) = Listing(fs_parser, heap, d)
       /\ (out'.cmd = "ls" =>
             out'.entries = Listing(fs_parser', heap', fs_parser'.current_directory))]_vars

C16_Witness ==
    /\ out.cmd = "ls"
    /\ fs_parser.current_directory = "a"
    /\ out.entries = << <<"b">> >>

\* C17: once the session is open no command changes the explorer's parsed
\* superblock or its raw header bytes.
C17_SuperblockImmutable ==
    [][pc = "loop" => (superblock' = superblock /\ raw_data' = raw_data)]_vars

C17_Witness ==
    /\ pc = "loop"
    /\ out.cmd = "mount"
    /\ out.exc = "struct.error"
    /\ superblock # None
    /\ Len(raw_data) > 96

\* C18: a class statement decorated with @register(name1, name2, ...), as
\* the one of commands/exit.py, raises nothing, binds the class itself and
\* leaves the class in the registry under every name given.
C18_RegisterManyNames ==
    /\ (out.cmd = "register" /\ ~out.bare
           /\ \A i \in 1..Len(out.args) : out.args[i].kind = "str") =>
          /\ out.exc = ""
          /\ out.ret = Class(out.cls)
          /\ \A i \in 1..Len(out.args) :
                /\ Registered(registry, out.args[i].val)
                /\ Lookup(registry, out.args[i].val) = out.cls
    /\ (out.cmd = "import" /\ out.module = "exit") =>
          /\ out.exc = ""
          /\ \A n \in {<<"e", "x", "i", "t">>, <<"q", "u", "i", "t">>} :
                Registered(registry, n) /\ Lookup(registry, n) = "ExitCommand"

\* C19: while the loop of tool.py runs, the registry holds every command
\* name of the package, and no such name is answered with "Unknown command".
C19_RegistryComplete ==
    pc = "loop" =>
        /\ \A n \in CommandNames : Registered(registry, n)
        /\ (out.cmd = "unknown" => out.name \notin CommandNames)

\* C20: ls, cd and cat run without a parser that holds a parsed superblock
\* (before any mount, after a mount that failed) only report that the
\* filesystem is not mounted.
C20_MountedGuard ==
    (out.cmd \in {"ls", "cd", "cat"} /\ ~Mounted)
        => out.lines = <<"SquashFS filesystem not mounted.">>

\* The header of the block at position pos of the file img, and the size
\* bytes that follow it.
HeaderAt(img, pos) == FromLE(FileRead(img, pos, 2))
PayloadAt(img, pos) == FileRead(img, pos + 2, HeaderAt(img, pos) % 32768)

BlobOfRef(img, o, r) ==
    LET block == block_at(img, Attr(o, "inode_tbl_start") + (r \div 65536))
    IN  [exc |-> block.exc,
         ret |-> IF block.exc # "" THEN <<>> ELSE Slice(block.ret, r % 65536, Len(block.ret))]

DiskEntryCount(img) ==
    LET start == LEAt(img, 72, 8)
    IN  IF Len(img) >= 96 /\ start + 6 <= Len(img) THEN LEAt(img, start + 2, 4) + 1 ELSE 0

\* C23: listing the root directory of a mounted image whose directory table
\* holds k >= 1 entries for it shows k names or reports an error; it does
\* not report an empty directory.
C23_EntriesListedOrError ==
    (/\ out.cmd = "ls"
     /\ Mounted
     /\ fs_parser.current_directory = fs_parser.root_inode
     /\ heap[fs_parser.root_inode].inode_type = DIRECTORY
     /\ DiskEntryCount(image) >= 1)
        => \/ Len(out.entries) = DiskEntryCount(image)
           \/ out.lines = <<"Error listing directory">>

SqpeekLayout ==
    << <<"inode_count", 4, 4>>, <<"mkfs_time", 8, 4>>, <<"block_size", 12, 4>>,
       <<"frag_count", 16, 4>>, <<"compression", 20, 2>>, <<"block_log", 22, 2>>,
       <<"flags", 24, 2>>, <<"id_count", 26, 2>>, <<"version_major", 28, 2>>,
       <<"version_minor", 30, 2>>, <<"root_inode_ref", 32, 8>>, <<"bytes_used", 40, 8>>,
       <<"id_tbl_start", 48, 8>>, <<"xattr_tbl_start", 56, 8>>, <<"inode_tbl_start", 64, 8>>,
       <<"dir_tbl_start", 72, 8>>, <<"frag_tbl_start", 80, 8>>, <<"lookup_tbl_start", 88, 8>> >>

\* C26: on a file of 96 bytes or more with the SquashFS magic and compression
\* 1, SquashFSImage(path) returns with every attribute set from the header;
\* it raises ValueError only on another magic and NotImplementedError only on
\* another compression.
C26_ImageConstructed ==
    pc = "sqpeek" =>
        /\ (Len(image) >= 96 /\ LEAt(image, 0, 4) = MAGIC /\ LEAt(image, 20, 2) = 1) =>
              /\ sq.exc = ""
              /\ sq.attrs = [i \in 1..Len(SqpeekLayout) |->
                                <<SqpeekLayout[i][1],
                                  LEAt(image, SqpeekLayout[i][2], SqpeekLayout[i][3])>>]
        /\ (sq.exc = "ValueError" => (Len(image) >= 96 /\ LEAt(image, 0, 4) # MAGIC))
        /\ (sq.exc = "NotImplementedError" =>
               (Len(image) >= 96 /\ LEAt(image, 20, 2) # 1))


\* The steps of the loop that the claim names: an empty line, an unknown
\* command, an interrupt, or an exception that reached the loop (from
\* input() or from a handler).
LoopGoesOn(o) ==
    \/ o.cmd \in {"empty", "unknown", "interrupt"}
    \/ ("exc" \in DOMAIN o /\ o.exc # "")

\* C27: the command loop ends only when the exit command runs, with status
\* 0; an empty line, an unknown command, a KeyboardInterrupt or an exception
\* that reaches the loop leaves it running, with the explorer's state as it
\* was.
C27_LoopEndsOnlyOnExit ==
    [][pc = "loop" =>
          /\ (pc' # "loop" => (pc' = "exited" /\ out'.cmd = "exit" /\ exit_status' = <<0>>))
          /\ (LoopGoesOn(out') => (pc' = "loop" /\ exit_status' = exit_status))]_vars

\* The loop is running after a handler's exception reached it (help on an
\* empty registry).
C27_Witness ==
    /\ pc = "loop"
    /\ exit_status = <<>>
    /\ out.cmd = "help"
    /\ out.exc = "ValueError"


\* The objects reached from the objects of refs through children links in
\* at most n steps.
RECURSIVE ReachedWithin(_, _, _)
ReachedWithin(inodes, refs, n) ==
    IF n = 0 THEN refs
    ELSE ReachedWithin(inodes,
                       refs \cup UNION { { inodes[r].children[i].ref :
                                                i \in 1..Len(inodes[r].children) } :
                                            r \in refs },
                       n - 1)

\* C28: for a parser that holds a superblock, current_directory is never
\* None; it is the root inode, or an inode of type DIRECTORY reached from
\* the root through children links.
C28_CurrentDirectoryIsDirectory ==
    (pc = "loop" /\ fs_parser # None /\ fs_parser.superblock # None) =>
        /\ fs_parser.current_directory # "None"
        /\ fs_parser.root_inode # "None"
        /\ \/ fs_parser.current_directory = fs_parser.root_inode
           \/ /\ heap[fs_parser.current_directory].inode_type = DIRECTORY
              /\ fs_parser.current_directory
                    \in ReachedWithin(heap, {fs_parser.root_inode}, Cardinality(DOMAIN heap))

\* The parser is in /a/b, two links below the root, and a cd that named no
\* directory there has just returned False.
C28_Witness ==
    /\ pc = "loop"
    /\ fs_parser # None
    /\ fs_parser.superblock # None
    /\ fs_parser.current_directory = "b"
    /\ out.cmd = "cd"
    /\ out.lines = <<"Directory not found">>


\* C29: a change_directory call that does not succeed returns False without
\* raising (cd then prints "Directory not found") and leaves
\* current_directory as it was; list_directory and get_file_content (ls and
\* cat) never change current_directory.
C29_FailedCdLeavesDirectory ==
    [][(pc = "loop" /\ fs_parser # None) =>
          /\ (out'.cmd = "cd" /\ out'.args # <<>> /\ out'.lines # <<"Changed directory to">>) =>
                /\ out'.lines = <<"Directory not found">>
                /\ fs_parser'.current_directory = fs_parser.current_directory
          /\ (out'.cmd \in {"ls", "cat"} =>
                fs_parser'.current_directory = fs_parser.current_directory)]_vars

====
